---- MODULE Spec2Model ----
(***************************************************************************)
(* A model of the comment preprocessing pipeline of                        *)
(* youtube-sentiment-analysis (src/src/preprocessing.py) and of its        *)
(* aggregator run_preprocessing.                                           *)
(*                                                                         *)
(* A Python str is modelled as the sequence of its Unicode code points, so *)
(* that the character classes of the regular expressions are the numeric   *)
(* ranges the source writes.  The class predicates below are exact on the  *)
(* code points the model's inputs are drawn from: ASCII, the Arabic blocks *)
(* U+0600-06FF, U+0750-077F, U+08A0-08FF, General Punctuation U+2000-206F, *)
(* U+20E3, U+FE00-FE0F, U+2600-27BF and U+1F1E0-1FAFF.                     *)
(***************************************************************************)
EXTENDS Integers, Sequences, FiniteSets, TLC

VARIABLES
  emoji,        \* TRUE iff "import emoji" succeeded (preprocessing.py 12-15)
  cfg,          \* the PreprocessConfig in force
  text,         \* the argument of the function under evaluation
  pc,           \* position of the caller
  result,       \* first component returned by _preprocess_comment_internal
  reason,       \* second component returned by _preprocess_comment_internal
  once,         \* _basic_clean(text)
  twice,        \* _basic_clean(_basic_clean(text))
  the_cleaned,  \* _preprocess_comment_internal: cleaned
  the_tokens,   \* _preprocess_comment_internal: full_tokens
  is_darija_text, \* _preprocess_comment_internal: is_darija_text
  seen_ids,     \* scrape_all_channels: the set object seen_ids
  all_comments, \* scrape_all_channels: all_comments
  videos,       \* the calls of get_comments made in the run
  raw_file,     \* the file at raw_path
  insta_file,   \* the file at instagram_path
  all_items,    \* run_preprocessing: all_items
  todo,         \* run_preprocessing: the part of all_items the loop has not visited
  processed,    \* run_preprocessing: processed
  dropped,      \* run_preprocessing: dropped
  counters,     \* run_preprocessing: counters
  saved,        \* the two output files
  returned      \* what run_preprocessing returned or raised

vars == <<emoji, cfg, text, pc, result, reason, once, twice, the_cleaned,
          the_tokens, is_darija_text, seen_ids, all_comments, videos, raw_file,
          insta_file, all_items, todo, processed, dropped, counters, saved,
          returned>>

(* Python values.  Where a position can hold values of several Python    *)
(* types (the text of a comment, its comment_id, a returned result), a    *)
(* value is a record that names its type: a str carries its code points.   *)
(* Where a position holds a str that the code only compares and formats   *)
(* (a drop reason, a source tag, a counter name), the str is written as a  *)
(* TLA+ string and the absent value is NoneStr.                            *)
None == [type |-> "NoneType"]
NoneStr == "None"
PyStr(s) == [type |-> "str", s |-> s]
PyInt(n) == [type |-> "int", n |-> n]

-----------------------------------------------------------------------------
(* Strings as code point sequences *)

\* Printable ASCII characters: '#' (35) to '[' (91), ']' (93) to '_' (95) and
\* 'a' (97) to '~' (126); the space is 32 and '!' is 33.
Printable1 == "#$%&'()*+,-./0123456789:;<=>?@ABCDEFGHIJKLMNOPQRSTUVWXYZ["
Printable2 == "]^_"
Printable3 == "abcdefghijklmnopqrstuvwxyz{|}~"

\* Position of the one-character string ch in the string table, 0 if absent.
IndexIn(table, ch) ==
  IF \E i \in 1..Len(table) : SubSeq(table, i, i) = ch
  THEN CHOOSE i \in 1..Len(table) : SubSeq(table, i, i) = ch
  ELSE 0

\* ord() of a printable ASCII character, given as a one-character string.
Ord(ch) ==
  IF ch = " " THEN 32
  ELSE IF ch = "!" THEN 33
  ELSE IF IndexIn(Printable1, ch) > 0 THEN 34 + IndexIn(Printable1, ch)
  ELSE IF IndexIn(Printable2, ch) > 0 THEN 92 + IndexIn(Printable2, ch)
  ELSE 96 + IndexIn(Printable3, ch)

\* The code point sequence of an ASCII string literal.
S(str) == [i \in 1..Len(str) |-> Ord(SubSeq(str, i, i))]

\* s[i], or -1 beyond the ends of s.
At(s, i) == IF i >= 1 /\ i <= Len(s) THEN s[i] ELSE -1

\* The positions of s, in order.
Indices(s) == [i \in 1..Len(s) |-> i]

\* The elements of s at the positions idx, in the order of idx.
Pick(s, idx) == [j \in 1..Len(idx) |-> s[idx[j]]]

\* s.startswith(p) at offset i (i is the position of the first character).
StartsAt(s, i, p) ==
  /\ i + Len(p) - 1 <= Len(s)
  /\ \A k \in 1..Len(p) : s[i + k - 1] = p[k]

EndsWith(s, p) == Len(p) <= Len(s) /\ StartsAt(s, Len(s) - Len(p) + 1, p)

\* isinstance(x, str)
IsStr(x) == x.type = "str"

\* bool(x) for a str, an int or None
Truthy(x) ==
  CASE x.type = "str" -> Len(x.s) > 0
    [] x.type = "int" -> x.n # 0
    [] OTHER -> FALSE

-----------------------------------------------------------------------------
(* Character classes *)

\* \s, str.isspace(), the separators of str.split() and str.strip()
IsSpace(c) ==
  \/ c \in 9..13 \/ c \in 28..32 \/ c = 133 \/ c = 160
  \/ c \in 8192..8202 \/ c \in 8232..8233 \/ c = 8239 \/ c = 8287

\* \d (Unicode decimal digits)
IsDigit(c) == c \in 48..57 \/ c \in 1632..1641 \/ c \in 1776..1785

\* \w (Unicode alphanumerics and the underscore)
IsWord(c) ==
  \/ c \in 48..57 \/ c \in 65..90 \/ c = 95 \/ c \in 97..122
  \/ c \in 1568..1610 \/ c \in 1632..1641 \/ c \in 1646..1647
  \/ c \in 1649..1747 \/ c = 1749 \/ c \in 1765..1766 \/ c \in 1774..1788
  \/ c = 1791 \/ c \in 1872..1919 \/ c \in 2208..2249 \/ c \in 10102..10131

\* [؀-ۿ]
IsArabicBlock(c) == c \in 1536..1791

\* _ARABIC_LETTERS_RE: [؀-ۿݐ-ݿࢠ-ࣿ]
IsArabic(c) == c \in 1536..1791 \/ c \in 1872..1919 \/ c \in 2208..2303

\* _LATIN_LETTERS_RE: [a-zA-Z]
IsLatin(c) == c \in 65..90 \/ c \in 97..122

\* [a-z]
IsLower(c) == c \in 97..122

\* The character class of _EMOJI_RE.  Inside the brackets the keycap
\* sequences are read character by character, so the class also holds
\* '#', '*', the range '0'-'9', U+20E3 and U+200D.
IsEmojiClass(c) ==
  \/ c = 35 \/ c = 42 \/ c \in 48..57 \/ c = 8205 \/ c = 8419
  \/ c \in 65024..65039 \/ c \in 9728..10175 \/ c \in 127456..127487
  \/ c \in 127744..128591 \/ c \in 128640..129791

\* The emoji of the emoji package's table among the model's code points:
\* U+1F602 and U+1F60D (one code point each).
IsPackageEmoji(c) == c \in {128514, 128525}

\* The character class of _PUNCTUATION_RE.
IsPunctuation(c) ==
  \/ c \in 33..47 \/ c \in 58..64 \/ c \in 91..96 \/ c \in 123..126
  \/ c = 171 \/ c = 187 \/ c = 1548 \/ c = 1563 \/ c = 1567 \/ c = 1600
  \/ c \in 1642..1645 \/ c \in 8211..8212 \/ c \in 8216..8217
  \/ c \in 8220..8221 \/ c = 8230

\* str.lower(), one character.
LowerChar(c) == IF c \in 65..90 THEN c + 32 ELSE c

Lower(s) == [i \in 1..Len(s) |-> LowerChar(s[i])]

\* Membership of the character c in the named class.
\* Membership of the character c in the named class.
InClass(kind, c) ==
  CASE kind = "nonspace" -> ~IsSpace(c)
    [] kind = "word"     -> IsWord(c)
    [] kind = "emoji"    -> IsEmojiClass(c)
    [] kind = "punct"    -> IsPunctuation(c)

\* The positions i, i+1, ..., Len(s) of s, in order.
IndicesFrom(s, i) == [k \in 1..(Len(s) - i + 1) |-> i + k - 1]

\* The first element of a sequence of positions, 0 if there is none.
First(seq) == IF Len(seq) = 0 THEN 0 ELSE seq[1]

\* min(a, b)
Min(a, b) == IF a <= b THEN a ELSE b

\* x, or d when x is 0.
OrElse(x, d) == IF x = 0 THEN d ELSE x

\* a + b when both parts of a match are present, 0 otherwise.
Both(a, b) == IF a > 0 /\ b > 0 THEN a + b ELSE 0

\* Length of the longest run of characters of the named class that starts
\* at position i of s (what a greedy X+ or X* consumes there).
RunLen(s, i, kind) ==
  IF i > Len(s) THEN 0
  ELSE OrElse(First(SelectSeq(IndicesFrom(s, i), LAMBDA j : ~InClass(kind, s[j]))),
              Len(s) + 1) - i

-----------------------------------------------------------------------------
(* The cleaning regular expressions (preprocessing.py 26-64) *)

\* \b between s[i-1] and s[i]
WordBoundary(s, i) == IsWord(At(s, i - 1)) # IsWord(At(s, i))

UrlHttps == <<104, 116, 116, 112, 115, 58, 47, 47>>  \* https://
UrlHttp  == <<104, 116, 116, 112, 58, 47, 47>>       \* http://
UrlWww   == <<119, 119, 119, 46>>                    \* www.

\* Length of the alternative of https?://|www\. that the lowercased text
\* low starts with, 0 if none.
UrlHead(low) ==
  IF StartsAt(low, 1, UrlHttps) THEN 8
  ELSE IF StartsAt(low, 1, UrlHttp) THEN 7
  ELSE IF StartsAt(low, 1, UrlWww) THEN 4
  ELSE 0

\* The match of \S+ after a head of the given length at position i.
UrlFrom(s, i, head) ==
  IF head = 0 THEN 0 ELSE Both(head, RunLen(s, i + head, "nonspace"))

\* _URL_RE = https?://\S+|www\.\S+ (IGNORECASE): length of the match at i, 0 if none
UrlMatch(s, i) ==
  IF LowerChar(s[i]) \notin {104, 119} THEN 0
  ELSE UrlFrom(s, i, UrlHead(Lower(SubSeq(s, i, Min(i + 7, Len(s))))))

\* _MENTION_RE = @\w+ and _HASHTAG_RE = #\w+ (sign is '@' or '#')
SignMatch(s, i, sign) ==
  IF s[i] # sign THEN 0 ELSE Both(1, RunLen(s, i + 1, "word"))

\* \d at position k of s
DigitAt(s, k) == IsDigit(At(s, k))

\* \d{d}:\d{2}(?::\d{2})?\b at position i: length of the match, 0 if none
TimeWith(s, i, d) ==
  IF ~(/\ \A k \in i..(i + d - 1) : DigitAt(s, k)
       /\ At(s, i + d) = 58
       /\ DigitAt(s, i + d + 1) /\ DigitAt(s, i + d + 2))
  THEN 0
  ELSE IF /\ At(s, i + d + 3) = 58
          /\ DigitAt(s, i + d + 4) /\ DigitAt(s, i + d + 5)
          /\ WordBoundary(s, i + d + 6)
  THEN d + 6
  ELSE IF WordBoundary(s, i + d + 3) THEN d + 3
  ELSE 0

\* _TIME_RE = \b\d{1,2}:\d{2}(?::\d{2})?\b
TimeMatch(s, i) ==
  IF ~WordBoundary(s, i) THEN 0
  ELSE OrElse(TimeWith(s, i, 2), TimeWith(s, i, 1))

\* Length of the match of the named pattern at position i of s, 0 if none.
MatchLen(kind, s, i) ==
  CASE kind = "url"     -> UrlMatch(s, i)
    [] kind = "mention" -> SignMatch(s, i, 64)
    [] kind = "hashtag" -> SignMatch(s, i, 35)
    [] kind = "time"    -> IF IsDigit(s[i]) THEN TimeMatch(s, i) ELSE 0
    [] kind = "emoji"   -> IF IsEmojiClass(s[i]) THEN RunLen(s, i, "emoji") ELSE 0
    [] kind = "package" -> IF IsPackageEmoji(s[i]) THEN 1 ELSE 0
    [] kind = "punct"   -> IF IsPunctuation(s[i]) THEN RunLen(s, i, "punct") ELSE 0

\* Position of the leftmost match of the pattern at or after i, 0 if none.
NextMatch(kind, s, i) ==
  First(SelectSeq(IndicesFrom(s, i), LAMBDA j : MatchLen(kind, s, j) > 0))

\* pattern.sub(" ", s): the leftmost non-overlapping matches, found from
\* position i on, are each replaced by one space; j is the position of the
\* leftmost match at or after i.
RECURSIVE SubFrom(_, _, _, _)
SubFrom(kind, s, i, j) ==
  IF j = 0 THEN SubSeq(s, i, Len(s))
  ELSE SubSeq(s, i, j - 1) \o <<32>>
         \o SubFrom(kind, s, j + MatchLen(kind, s, j),
                    NextMatch(kind, s, j + MatchLen(kind, s, j)))

SubSpace(kind, s) == SubFrom(kind, s, 1, NextMatch(kind, s, 1))

-----------------------------------------------------------------------------
(* Cleaning functions (preprocessing.py 67-72, 511-549) *)

_remove_all_emojis(t, lib) ==
  IF Len(t) = 0 THEN t
  ELSE IF lib THEN SubSpace("package", t)
  ELSE SubSpace("emoji", t)

\* the characters the normalisation of Arabic folds
FoldChar(c) ==
  CASE c \in {1571, 1573, 1570, 1649} -> 1575
    [] c \in {1609, 1574} -> 1610
    [] c = 1572 -> 1608
    [] c = 1577 -> 1607
    [] OTHER -> c

\* the same function applied to every character
Fold(t) == [i \in 1..Len(t) |-> FoldChar(t[i])]

_normalize_arabic(t) ==
  Fold(SelectSeq(t, LAMBDA c : ~(c \in 1611..1631 \/ c = 1648 \/ c = 1600)))

\* re.sub(r"([X])\1{2,}", r"\1\1", t) for the character class X ("arabic":
\* the block U+0600-06FF, "latin": a-zA-Z): of every run of three or more
\* equal characters of the class the first two are kept.
CollapseRuns(t, class) ==
  Pick(t, SelectSeq(Indices(t),
                    LAMBDA i : ~(/\ i >= 3
                                 /\ IF class = "arabic" THEN IsArabicBlock(t[i])
                                    ELSE IsLatin(t[i])
                                 /\ t[i - 1] = t[i]
                                 /\ t[i - 2] = t[i])))

_normalize_elongation(t) == CollapseRuns(CollapseRuns(t, "arabic"), "latin")

_strip_noise(t, lib) ==
  _remove_all_emojis(
    SubSpace("time", SubSpace("hashtag", SubSpace("mention", SubSpace("url", t)))),
    lib)

_remove_punctuation(t) == SubSpace("punct", t)

\* str.strip()
StripTo(t, solid) ==
  IF Len(solid) = 0 THEN <<>> ELSE SubSeq(t, solid[1], solid[Len(solid)])

Strip(t) == StripTo(t, SelectSeq(Indices(t), LAMBDA i : ~IsSpace(t[i])))

\* _MULTISPACE_RE.sub(" ", t): every run of whitespace becomes one space
Squeeze(t) ==
  [i \in 1..Len(t) |-> IF IsSpace(t[i]) THEN 32 ELSE t[i]]

SqueezeSpaces(t) ==
  Squeeze(Pick(t, SelectSeq(Indices(t),
                            LAMBDA i : ~(IsSpace(t[i]) /\ i > 1 /\ IsSpace(t[i - 1])))))

\* _MULTISPACE_RE.sub(" ", t).strip()
CollapseSpaces(t) == Strip(SqueezeSpaces(t))

\* t.replace(U+200F, " ").replace(U+200E, " ")
SpaceMarks(t) == [i \in 1..Len(t) |-> IF t[i] \in {8207, 8206} THEN 32 ELSE t[i]]

\* the three replace calls that delete U+200B, U+200C and U+200D
DropZeroWidth(t) == SelectSeq(t, LAMBDA c : c \notin {8203, 8204, 8205})

\* re.sub(r"[^a-z0-9\s<Arabic blocks>]", " ", t)
KeepLetters(t) ==
  [i \in 1..Len(t) |->
     IF IsLower(t[i]) \/ t[i] \in 48..57 \/ IsSpace(t[i]) \/ IsArabic(t[i])
     THEN t[i] ELSE 32]

_basic_clean(t, lib) ==
  CollapseSpaces(
    KeepLetters(
      _remove_punctuation(
        Lower(
          _normalize_elongation(
            _normalize_arabic(
              _strip_noise(DropZeroWidth(SpaceMarks(t)), lib)))))))

-----------------------------------------------------------------------------
(* Tokenisation (preprocessing.py 556-574) *)

\* the maximal runs of non-whitespace characters of t that start at the
\* given positions
RunsAt(t, starts) ==
  [k \in 1..Len(starts) |->
     SubSeq(t, starts[k], starts[k] + RunLen(t, starts[k], "nonspace") - 1)]

\* str.split(): the maximal runs of non-whitespace characters
Split(t) ==
  RunsAt(t, SelectSeq(Indices(t),
                      LAMBDA i : ~IsSpace(t[i]) /\ (i = 1 \/ IsSpace(t[i - 1]))))

HasArabic(t) == \E i \in 1..Len(t) : IsArabic(t[i])
HasLatin(t)  == \E i \in 1..Len(t) : IsLatin(t[i])
HasDigit(t)  == \E i \in 1..Len(t) : IsDigit(t[i])

\* A tokeniser that discards every token that holds a digit.
TokenizeWithoutDigits(t) ==
  SelectSeq(Split(t),
            LAMBDA tok : ~HasDigit(tok) /\ (HasArabic(tok) \/ HasLatin(tok)))

_tokenize(t) ==
  IF Len(t) = 0 THEN <<>>
  ELSE SelectSeq(Split(t),
                 LAMBDA tok :
                   /\ Len(tok) > 0
                   /\ IF HasDigit(tok)
                      THEN HasArabic(tok) \/ HasLatin(tok)
                      ELSE HasArabic(tok) \/ HasLatin(tok))

-----------------------------------------------------------------------------
(* Morphological patterns (preprocessing.py 79-136) *)

\* the alternatives of _DARIJA_VERB_PREFIX_RE: كي|كا|كن|كت|غا|ما|تا|نا|يا
VerbPrefixes ==
  {<<1603, 1610>>,
   <<1603, 1575>>,
   <<1603, 1606>>,
   <<1603, 1578>>,
   <<1594, 1575>>,
   <<1605, 1575>>,
   <<1578, 1575>>,
   <<1606, 1575>>,
   <<1610, 1575>>}

\* the alternatives of _DARIJA_SUFFIX_RE: ني|تي|تو|ناه|هاش|نيش|ليه|ليها|ليهم|تهم|ناها|وها|وه|هم|كم|نا
Suffixes ==
  {<<1606, 1610>>,
   <<1578, 1610>>,
   <<1578, 1608>>,
   <<1606, 1575, 1607>>,
   <<1607, 1575, 1588>>,
   <<1606, 1610, 1588>>,
   <<1604, 1610, 1607>>,
   <<1604, 1610, 1607, 1575>>,
   <<1604, 1610, 1607, 1605>>,
   <<1578, 1607, 1605>>,
   <<1606, 1575, 1607, 1575>>,
   <<1608, 1607, 1575>>,
   <<1608, 1607>>,
   <<1607, 1605>>,
   <<1603, 1605>>,
   <<1606, 1575>>}

\* the alternatives of _DARIJA_CONTRACTION_RE: دال|دل|فال|فل|بال|بل|ديال|فيه|بيه|عليه
Contractions ==
  {<<1583, 1575, 1604>>,
   <<1583, 1604>>,
   <<1601, 1575, 1604>>,
   <<1601, 1604>>,
   <<1576, 1575, 1604>>,
   <<1576, 1604>>,
   <<1583, 1610, 1575, 1604>>,
   <<1601, 1610, 1607>>,
   <<1576, 1610, 1607>>,
   <<1593, 1604, 1610, 1607>>}

\* the alternatives of _DARIJA_PLURAL_RE: ين|ات|وا|يو|يين
Plurals ==
  {<<1610, 1606>>,
   <<1575, 1578>>,
   <<1608, 1575>>,
   <<1610, 1608>>,
   <<1610, 1610, 1606>>}

\* the endings of _DARIJA_NEGATION_RE: ش|شي
NegationEnds ==
  {<<1588>>,
   <<1588, 1610>>}

\* the prefix of _DARIJA_NEGATION_RE: ما
NegationPrefix == <<1605, 1575>>

LatinNegationPrefix == <<109, 97>>  \* ma
LatinNegationEnds == {<<99, 104>>, <<115, 104>>}  \* ch, sh

\* the alternatives of _DARIJA_LATIN_VERB_PREFIX_RE: ka, ki, kan, kat, tan,
\* tat, gha, ghan, na, ta, ya, ba, da
LatinVerbPrefixes ==
  {<<107, 97>>, <<107, 105>>, <<107, 97, 110>>, <<107, 97, 116>>, <<116, 97, 110>>, <<116, 97, 116>>, <<103, 104, 97>>,
   <<103, 104, 97, 110>>, <<110, 97>>, <<116, 97>>, <<121, 97>>, <<98, 97>>, <<100, 97>>}

\* [aeiou]
Vowels == {97, 101, 105, 111, 117}

\* every character of tok from position i to position j is in U+0600-06FF
AllArabicBlock(tok, i, j) == \A k \in i..j : IsArabicBlock(tok[k])

\* every character of tok from position i to position j is in a-z
AllLower(tok, i, j) == \A k \in i..j : IsLower(tok[k])

\* _DARIJA_VERB_PREFIX_RE.match(tok): ^(prefix)[block]{2,}
VerbPrefixMatch(tok) ==
  \E p \in VerbPrefixes :
    /\ StartsAt(tok, 1, p)
    /\ Len(tok) >= Len(p) + 2
    /\ AllArabicBlock(tok, Len(p) + 1, Len(p) + 2)

\* _DARIJA_NEGATION_RE.match(tok): ^ma[block]{2,}(sh|shi)$ in Arabic script
NegationMatch(tok) ==
  \E e \in NegationEnds :
    /\ StartsAt(tok, 1, NegationPrefix)
    /\ EndsWith(tok, e)
    /\ Len(tok) - Len(e) - Len(NegationPrefix) >= 2
    /\ AllArabicBlock(tok, Len(NegationPrefix) + 1, Len(tok) - Len(e))

\* pattern.match(tok) for [block]{3,}(ending)$ with the given endings
StemEndingMatch(tok, endings) ==
  \E e \in endings :
    /\ EndsWith(tok, e)
    /\ Len(tok) - Len(e) >= 3
    /\ AllArabicBlock(tok, 1, Len(tok) - Len(e))

\* _DARIJA_SUFFIX_RE.match(tok)
SuffixMatch(tok) == StemEndingMatch(tok, Suffixes)

\* _DARIJA_CONTRACTION_RE.match(tok): ^(contraction)[block]*$
ContractionMatch(tok) ==
  \E p \in Contractions :
    /\ StartsAt(tok, 1, p)
    /\ AllArabicBlock(tok, Len(p) + 1, Len(tok))

\* _DARIJA_PLURAL_RE.match(tok)
PluralMatch(tok) == StemEndingMatch(tok, Plurals)

\* _DARIJA_LATIN_NEGATION_RE.match(tok): ^ma[a-z]{2,}(?:ch|sh)$, tok lowercased
LatinNegationMatch(tok) ==
  \E e \in LatinNegationEnds :
    /\ StartsAt(tok, 1, LatinNegationPrefix)
    /\ Len(tok) - 2 - Len(e) >= 2
    /\ EndsWith(tok, e)
    /\ AllLower(tok, 3, Len(tok) - Len(e))

\* _DARIJA_LATIN_VERB_PREFIX_RE.match(tok): ^(?:prefix)[a-z]{2,}$, tok lowercased
LatinVerbPrefixMatch(tok) ==
  \E p \in LatinVerbPrefixes :
    /\ StartsAt(tok, 1, p)
    /\ Len(tok) - Len(p) >= 2
    /\ AllLower(tok, Len(p) + 1, Len(tok))

\* _DARIJA_ELONGATION_RE.match(tok): ^[a-z]*([aeiou])\1{2,}[a-z]*$, tok lowercased
ElongationMatch(tok) ==
  /\ AllLower(tok, 1, Len(tok))
  /\ \E i \in 1..(Len(tok) - 2) :
       tok[i] \in Vowels /\ tok[i + 1] = tok[i] /\ tok[i + 2] = tok[i]

\* the if/elif chain of _has_darija_morphology for one token
\* The Latin patterns of _has_darija_morphology without the transliterated
\* negation and verb prefix.
ElongationOnly(tok_lower) == ElongationMatch(tok_lower)

LatinHit(tok_lower) ==
  IF LatinNegationMatch(tok_lower) THEN TRUE
  ELSE IF LatinVerbPrefixMatch(tok_lower) THEN TRUE
  ELSE IF ElongationMatch(tok_lower) THEN TRUE
  ELSE FALSE

MorphologyHit(tok) ==
  IF VerbPrefixMatch(tok) THEN TRUE
  ELSE IF NegationMatch(tok) THEN TRUE
  ELSE IF SuffixMatch(tok) THEN TRUE
  ELSE IF ContractionMatch(tok) THEN TRUE
  ELSE IF PluralMatch(tok) THEN TRUE
  ELSE LatinHit(Lower(tok))

\* sum(1 for x in xs if P(x)), for a sequence of truth values
CountTrue(bs) == Cardinality({i \in 1..Len(bs) : bs[i]})

_has_darija_morphology(tokens) ==
  CountTrue([i \in 1..Len(tokens) |-> MorphologyHit(tokens[i])])

-----------------------------------------------------------------------------
(* Lexicons (preprocessing.py 143-482) *)

\* _STOPWORDS (preprocessing.py lines 143-161): 111 distinct entries,
\* each written as its sequence of Unicode code points.
_STOPWORDS ==
  {
    <<1608>>,  \* و
    <<1601, 1610>>,  \* في
    <<1593, 1604, 1609>>,  \* على
    <<1605, 1606>>,  \* من
    <<1575, 1604, 1609>>,  \* الى
    <<1573, 1604, 1609>>,  \* إلى
    <<1593, 1606>>,  \* عن
    <<1606, 1593, 1605>>,  \* نعم
    <<1607, 1608>>,  \* هو
    <<1607, 1610>>,  \* هي
    <<1607, 1605>>,  \* هم
    <<1607, 1575>>,  \* ها
    <<1607, 1584, 1575>>,  \* هذا
    <<1607, 1584, 1607>>,  \* هذه
    <<1584, 1604, 1603>>,  \* ذلك
    <<1578, 1604, 1603>>,  \* تلك
    <<1608, 1575, 1588>>,  \* واش
    <<1588, 1606, 1608>>,  \* شنو
    <<1575, 1606>>,  \* ان
    <<1571, 1606>>,  \* أن
    <<1573, 1606>>,  \* إن
    <<1607, 1575, 1583>>,  \* هاد
    <<1607, 1575, 1583, 1610>>,  \* هادي
    <<1607, 1575, 1583, 1608>>,  \* هادو
    <<1583, 1610, 1575, 1604>>,  \* ديال
    <<1604, 1610>>,  \* لي
    <<1575, 1604, 1604, 1610>>,  \* اللي
    <<1603, 1575, 1606>>,  \* كان
    <<1610, 1603, 1608, 1606>>,  \* يكون
    <<1594, 1575, 1583, 1610>>,  \* غادي
    <<1603, 1575, 1610, 1606>>,  \* كاين
    <<1585, 1575, 1607>>,  \* راه
    <<1593, 1606, 1583>>,  \* عند
    <<1603, 1604>>,  \* كل
    <<1576, 1581, 1575, 1604>>,  \* بحال
    <<1571, 1608>>,  \* أو
    <<1575, 1608>>,  \* او
    <<1610, 1593, 1606, 1610>>,  \* يعني
    <<1603, 1610, 1601>>,  \* كيف
    <<1576, 1575, 1588>>,  \* باش
    <<1581, 1578, 1609>>,  \* حتى
    <<1576, 1604, 1610>>,  \* بلي
    <<1588, 1610>>,  \* شي
    <<1583, 1575, 1603>>,  \* داك
    <<1583, 1610, 1603>>,  \* ديك
    <<1607, 1583, 1575, 1603>>,  \* هداك
    <<1601, 1610, 1607>>,  \* فيه
    <<1601, 1610, 1607, 1575>>,  \* فيها
    <<1605, 1593, 1575>>,  \* معا
    <<1593, 1604, 1610, 1607>>,  \* عليه
    <<1593, 1604, 1610, 1607, 1575>>,  \* عليها
    <<1576, 1610, 1607>>,  \* بيه
    <<1576, 1610, 1607, 1575>>,  \* بيها
    <<1604, 1610, 1607>>,  \* ليه
    <<1604, 1610, 1607, 1575>>,  \* ليها
    <<1605, 1606, 1610, 1606>>,  \* منين
    <<1603, 1610, 1601, 1605, 1575>>,  \* كيفما
    <<1601, 1575, 1588>>,  \* فاش
    <<1605, 1604, 1610>>,  \* ملي
    <<1594, 1610>>,  \* غي
    <<1594, 1610, 1585>>,  \* غير
    <<1578, 1575>>,  \* تا
    <<1581, 1578, 1575>>,  \* حتا
    <<1585, 1575>>,  \* را
    <<1610, 1575, 1604, 1575, 1607>>,  \* يالاه
    <<1575, 1608, 1575>>,  \* اوا
    <<1575, 1610, 1608, 1575>>,  \* ايوا
    <<1570, 1588>>,  \* آش
    <<1588, 1603, 1608, 1606>>,  \* شكون
    <<1603, 1608, 1606>>,  \* كون
    <<1575, 1604, 1575>>,  \* الا
    <<1573, 1604, 1575>>,  \* إلا
    <<97>>, <<98>>, <<99>>,
    <<100>>, <<100, 101>>, <<100, 101, 115>>,
    <<100, 117>>, <<101, 116>>, <<108, 101>>,
    <<108, 97>>, <<108, 101, 115>>, <<117, 110>>,
    <<117, 110, 101>>, <<101, 115, 116>>, <<115, 111, 110, 116>>,
    <<97, 118, 101, 99>>, <<112, 111, 117, 114>>, <<112, 97, 115>>,
    <<113, 117, 101>>, <<113, 117, 105>>, <<116, 104, 101>>,
    <<97, 110, 100>>, <<116, 111>>, <<111, 102>>,
    <<102, 111, 114>>, <<105, 110>>, <<105, 115>>,
    <<97, 114, 101>>, <<105, 116>>, <<116, 104, 105, 115>>,
    <<116, 104, 97, 116>>, <<121, 111, 117>>, <<105>>,
    <<97, 110>>, <<98, 101>>, <<104, 97, 118, 101>>,
    <<104, 97, 115>>, <<119, 97, 115>>, <<119, 101, 114, 101>>
  }

\* _DARIJA_MARKERS (preprocessing.py lines 168-355): 567 distinct entries,
\* each written as its sequence of Unicode code points.
_DARIJA_MARKERS ==
  {
    <<1576, 1586, 1575, 1601>>,  \* بزاف
    <<1608, 1575, 1588>>,  \* واش
    <<1593, 1575, 1601, 1575, 1603>>,  \* عافاك
    <<1581, 1610, 1578>>,  \* حيت
    <<1603, 1575, 1610, 1606>>,  \* كاين
    <<1594, 1575, 1583, 1610>>,  \* غادي
    <<1582, 1575, 1610, 1576>>,  \* خايب
    <<1586, 1608, 1610, 1606>>,  \* زوين
    <<1605, 1586, 1610, 1575, 1606>>,  \* مزيان
    <<1605, 1603, 1575, 1610, 1606>>,  \* مكاين
    <<1576, 1594, 1610, 1578>>,  \* بغيت
    <<1585, 1575, 1603>>,  \* راك
    <<1583, 1575, 1576, 1575>>,  \* دابا
    <<1588, 1608, 1610, 1577>>,  \* شوية
    <<1607, 1575, 1583>>,  \* هاد
    <<1583, 1610, 1575, 1604>>,  \* ديال
    <<1605, 1587, 1603, 1610, 1606>>,  \* مسكين
    <<1608, 1575, 1593, 1585>>,  \* واعر
    <<1603, 1606, 1583, 1610, 1585>>,  \* كندير
    <<1603, 1606, 1588, 1608, 1601>>,  \* كنشوف
    <<1603, 1606, 1602, 1608, 1604>>,  \* كنقول
    <<1603, 1610, 1602, 1608, 1604>>,  \* كيقول
    <<1603, 1610, 1583, 1610, 1585>>,  \* كيدير
    <<1603, 1606, 1605, 1608, 1578>>,  \* كنموت
    <<1576, 1594, 1575>>,  \* بغا
    <<1603, 1604, 1588, 1610>>,  \* كلشي
    <<1593, 1606, 1583, 1608>>,  \* عندو
    <<1593, 1606, 1583, 1607, 1575>>,  \* عندها
    <<1605, 1575, 1603, 1575, 1610, 1606>>,  \* ماكاين
    <<1582, 1575, 1589, 1603>>,  \* خاصك
    <<1582, 1575, 1589, 1606, 1610>>,  \* خاصني
    <<1576, 1589, 1581>>,  \* بصح
    <<1589, 1575, 1601, 1610>>,  \* صافي
    <<1586, 1593, 1605, 1575>>,  \* زعما
    <<1593, 1575, 1583>>,  \* عاد
    <<1610, 1575, 1604, 1575, 1607>>,  \* يالاه
    <<1605, 1575, 1588, 1610>>,  \* ماشي
    <<1603, 1610, 1601, 1575, 1588>>,  \* كيفاش
    <<1607, 1575, 1583, 1588, 1610>>,  \* هادشي
    <<1585, 1575, 1607>>,  \* راه
    <<1603, 1575, 1593>>,  \* كاع
    <<1608, 1575, 1604, 1608>>,  \* والو
    <<1610, 1602, 1583, 1585>>,  \* يقدر
    <<1582, 1589, 1603>>,  \* خصك
    <<1582, 1589, 1606, 1610>>,  \* خصني
    <<1605, 1575, 1576, 1594, 1610, 1578, 1588>>,  \* مابغيتش
    <<1603, 1606, 1576, 1594, 1610>>,  \* كنبغي
    <<1593, 1580, 1576, 1606, 1610>>,  \* عجبني
    <<1603, 1585, 1607, 1578>>,  \* كرهت
    <<1590, 1581, 1603, 1578>>,  \* ضحكت
    <<1576, 1603, 1610, 1578>>,  \* بكيت
    <<1582, 1601, 1578>>,  \* خفت
    <<1601, 1585, 1581, 1578>>,  \* فرحت
    <<1586, 1593, 1601, 1578>>,  \* زعفت
    <<1593, 1585, 1601, 1578, 1610>>,  \* عرفتي
    <<1593, 1585, 1601, 1578>>,  \* عرفت
    <<1593, 1585, 1601, 1606, 1575>>,  \* عرفنا
    <<1593, 1585, 1601, 1608>>,  \* عرفو
    <<1606, 1583, 1610, 1585>>,  \* ندير
    <<1606, 1583, 1610, 1585, 1608>>,  \* نديرو
    <<1583, 1610, 1585>>,  \* دير
    <<1583, 1610, 1585, 1610>>,  \* ديري
    <<1583, 1575, 1585, 1578>>,  \* دارت
    <<1583, 1575, 1585>>,  \* دار
    <<1576, 1602, 1575, 1578>>,  \* بقات
    <<1576, 1602, 1575>>,  \* بقا
    <<1576, 1602, 1610, 1578>>,  \* بقيت
    <<1576, 1602, 1610, 1606, 1575>>,  \* بقينا
    <<1578, 1604, 1593, 1576, 1608>>,  \* تلعبو
    <<1578, 1604, 1593, 1576>>,  \* تلعب
    <<1603, 1610, 1604, 1593, 1576>>,  \* كيلعب
    <<1603, 1610, 1604, 1593, 1576, 1608>>,  \* كيلعبو
    <<1603, 1610, 1582, 1604, 1610, 1606, 1610>>,  \* كيخليني
    <<1603, 1610, 1582, 1604, 1610>>,  \* كيخلي
    <<1582, 1604, 1575, 1606, 1610>>,  \* خلاني
    <<1582, 1604, 1575, 1578>>,  \* خلات
    <<1606, 1588, 1608, 1601>>,  \* نشوف
    <<1606, 1588, 1608, 1601, 1608>>,  \* نشوفو
    <<1588, 1601, 1578>>,  \* شفت
    <<1588, 1601, 1578, 1610>>,  \* شفتي
    <<1588, 1575, 1601, 1608>>,  \* شافو
    <<1606, 1602, 1608, 1604>>,  \* نقول
    <<1606, 1602, 1608, 1604, 1608>>,  \* نقولو
    <<1602, 1604, 1578>>,  \* قلت
    <<1602, 1604, 1578, 1610>>,  \* قلتي
    <<1602, 1575, 1604, 1608>>,  \* قالو
    <<1606, 1605, 1588, 1610>>,  \* نمشي
    <<1606, 1605, 1588, 1610, 1608>>,  \* نمشيو
    <<1605, 1588, 1610, 1578>>,  \* مشيت
    <<1605, 1588, 1575>>,  \* مشا
    <<1605, 1588, 1575, 1578>>,  \* مشات
    <<1606, 1608, 1602, 1601>>,  \* نوقف
    <<1608, 1602, 1601, 1578>>,  \* وقفت
    <<1608, 1602, 1601>>,  \* وقف
    <<1606, 1603, 1578, 1576>>,  \* نكتب
    <<1603, 1578, 1576, 1578>>,  \* كتبت
    <<1603, 1578, 1576>>,  \* كتب
    <<1606, 1601, 1607, 1605>>,  \* نفهم
    <<1601, 1607, 1605, 1578>>,  \* فهمت
    <<1601, 1607, 1605, 1578, 1610>>,  \* فهمتي
    <<1601, 1607, 1605, 1606, 1575>>,  \* فهمنا
    <<1606, 1587, 1605, 1593>>,  \* نسمع
    <<1587, 1605, 1593, 1578>>,  \* سمعت
    <<1587, 1605, 1593, 1578, 1610>>,  \* سمعتي
    <<1606, 1582, 1583, 1605>>,  \* نخدم
    <<1582, 1583, 1605, 1578>>,  \* خدمت
    <<1582, 1583, 1575, 1605>>,  \* خدام
    <<1582, 1583, 1575, 1605, 1577>>,  \* خدامة
    <<1580, 1576, 1578>>,  \* جبت
    <<1580, 1610, 1578>>,  \* جيت
    <<1580, 1575, 1576>>,  \* جاب
    <<1580, 1575, 1576, 1578>>,  \* جابت
    <<1576, 1583, 1575>>,  \* بدا
    <<1576, 1583, 1610, 1578>>,  \* بديت
    <<1576, 1583, 1610, 1606, 1575>>,  \* بدينا
    <<1583, 1585, 1578>>,  \* درت
    <<1583, 1575, 1585, 1608>>,  \* دارو
    <<1583, 1585, 1606, 1575>>,  \* درنا
    <<1591, 1604, 1593>>,  \* طلع
    <<1591, 1604, 1593, 1578>>,  \* طلعت
    <<1591, 1604, 1593, 1608>>,  \* طلعو
    <<1583, 1608, 1586>>,  \* دوز
    <<1583, 1608, 1586, 1578>>,  \* دوزت
    <<1583, 1608, 1586, 1607, 1575>>,  \* دوزها
    <<1607, 1583, 1610, 1603>>,  \* هديك
    <<1607, 1583, 1575>>,  \* هدا
    <<1607, 1583, 1608, 1603>>,  \* هدوك
    <<1607, 1575, 1583, 1608, 1603>>,  \* هادوك
    <<1607, 1575, 1583, 1608>>,  \* هادو
    <<1583, 1610, 1575, 1604, 1610>>,  \* ديالي
    <<1583, 1610, 1575, 1604, 1603>>,  \* ديالك
    <<1583, 1610, 1575, 1604, 1608>>,  \* ديالو
    <<1583, 1610, 1575, 1604, 1607, 1575>>,  \* ديالها
    <<1583, 1610, 1575, 1604, 1606, 1575>>,  \* ديالنا
    <<1583, 1610, 1575, 1604, 1603, 1605>>,  \* ديالكم
    <<1583, 1610, 1575, 1604, 1607, 1605>>,  \* ديالهم
    <<1608, 1589, 1575, 1601, 1610>>,  \* وصافي
    <<1587, 1575, 1601, 1610>>,  \* سافي
    <<1608, 1575, 1582, 1575>>,  \* واخا
    <<1582, 1604, 1575, 1589>>,  \* خلاص
    <<1575, 1604, 1575, 1607>>,  \* الاه
    <<1576, 1589, 1575, 1581>>,  \* بصاح
    <<1589, 1581, 1610, 1581>>,  \* صحيح
    <<1610, 1575, 1604, 1604, 1607>>,  \* يالله
    <<1575, 1580, 1610>>,  \* اجي
    <<1587, 1610, 1585>>,  \* سير
    <<1580, 1610>>,  \* جي
    <<1605, 1575, 1593, 1585, 1601, 1578, 1588>>,  \* ماعرفتش
    <<1605, 1575, 1603, 1575, 1606, 1588>>,  \* ماكانش
    <<1605, 1575, 1601, 1607, 1605, 1578, 1588>>,  \* مافهمتش
    <<1605, 1575, 1593, 1580, 1576, 1606, 1610, 1588>>,  \* ماعجبنيش
    <<1605, 1575, 1602, 1583, 1585, 1588>>,  \* ماقدرش
    <<1605, 1575, 1593, 1606, 1583, 1610, 1588>>,  \* ماعنديش
    <<1605, 1575, 1576, 1602, 1575, 1588>>,  \* مابقاش
    <<1605, 1575, 1580, 1575, 1588>>,  \* ماجاش
    <<1605, 1575, 1603, 1575, 1610, 1606, 1575, 1588>>,  \* ماكايناش
    <<1605, 1587, 1605, 1593, 1578, 1588>>,  \* مسمعتش
    <<1605, 1588, 1601, 1578, 1588>>,  \* مشفتش
    <<1605, 1575, 1588, 1601, 1578, 1588>>,  \* ماشفتش
    <<1604, 1575, 1610, 1603>>,  \* لايك
    <<1601, 1610, 1583, 1610, 1608>>,  \* فيديو
    <<1608, 1575, 1593, 1585, 1577>>,  \* واعرة
    <<1588, 1606, 1608>>,  \* شنو
    <<1593, 1604, 1575, 1588>>,  \* علاش
    <<1601, 1610, 1606>>,  \* فين
    <<1582, 1608, 1610, 1575>>,  \* خويا
    <<1582, 1578, 1610>>,  \* ختي
    <<1589, 1575, 1581, 1576, 1610>>,  \* صاحبي
    <<1589, 1575, 1581, 1576, 1578, 1610>>,  \* صاحبتي
    <<1608, 1604, 1610, 1583, 1575, 1578>>,  \* وليدات
    <<1583, 1585, 1575, 1585, 1610>>,  \* دراري
    <<1576, 1606, 1575, 1578>>,  \* بنات
    <<1608, 1604, 1575, 1583>>,  \* ولاد
    <<1601, 1604, 1608, 1587>>,  \* فلوس
    <<1582, 1583, 1605, 1577>>,  \* خدمة
    <<1602, 1585, 1575, 1610, 1577>>,  \* قراية
    <<1586, 1606, 1602, 1577>>,  \* زنقة
    <<1581, 1608, 1605, 1577>>,  \* حومة
    <<1576, 1604, 1575, 1583>>,  \* بلاد
    <<1576, 1604, 1575, 1583, 1606, 1575>>,  \* بلادنا
    <<1605, 1594, 1585, 1576>>,  \* مغرب
    <<1605, 1594, 1585, 1576, 1610>>,  \* مغربي
    <<1605, 1594, 1585, 1576, 1610, 1577>>,  \* مغربية
    <<1606, 1578, 1575>>,  \* نتا
    <<1606, 1578, 1610>>,  \* نتي
    <<1581, 1606, 1575>>,  \* حنا
    <<1607, 1608, 1605, 1575>>,  \* هوما
    <<1606, 1578, 1608, 1605, 1575>>,  \* نتوما
    <<1578, 1576, 1575, 1585, 1603>>,  \* تبارك
    <<1578, 1576, 1575, 1585, 1603, 32, 1575, 1604, 1604, 1607>>,  \* تبارك الله
    <<1575, 1604, 1604, 1607>>,  \* الله
    <<1604, 1604, 1607>>,  \* لله
    <<1575, 1604, 1601, 1585, 1583, 1577>>,  \* الفردة
    <<1604, 1601, 1585, 1583, 1577>>,  \* لفردة
    <<1604, 1608, 1575, 1604>>,  \* لوال
    <<1604, 1608, 1604>>,  \* لول
    <<1575, 1604, 1605, 1581, 1587, 1575, 1583, 1577>>,  \* المحسادة
    <<1604, 1605, 1581, 1587, 1575, 1583, 1577>>,  \* لمحسادة
    <<1605, 1581, 1587, 1575, 1583, 1577>>,  \* محسادة
    <<1575, 1604, 1605, 1607, 1583, 1575, 1608, 1610>>,  \* المهداوي
    <<1604, 1605, 1607, 1583, 1575, 1608, 1610>>,  \* لمهداوي
    <<1605, 1607, 1583, 1575, 1608, 1610>>,  \* مهداوي
    <<1587, 1582, 1608, 1606, 1610, 1575, 1578>>,  \* سخونيات
    <<1587, 1582, 1608, 1606, 1610, 1577>>,  \* سخونية
    <<1601, 1585, 1588, 1607, 1575>>,  \* فرشها
    <<1601, 1585, 1575, 1588>>,  \* فراش
    <<1605, 1587, 1605, 1606, 1577>>,  \* مسمنة
    <<1605, 1587, 1605, 1606>>,  \* مسمن
    <<1583, 1575, 1610, 1585, 1577>>,  \* دايرة
    <<1583, 1575, 1610, 1585>>,  \* داير
    <<1582, 1575, 1608, 1610>>,  \* خاوي
    <<1582, 1575, 1608, 1610, 1577>>,  \* خاوية
    <<1605, 1610, 1603, 1585, 1608, 1576>>,  \* ميكروب
    <<1583, 1576, 1586>>,  \* دبز
    <<1583, 1575, 1576, 1586>>,  \* دابز
    <<1603, 1610, 1578, 1593, 1575, 1610, 1585, 1608>>,  \* كيتعايرو
    <<1575, 1604, 1583, 1593, 1575, 1608, 1610>>,  \* الدعاوي
    <<1575, 1604, 1586, 1608, 1610, 1606, 1610, 1606>>,  \* الزوينين
    <<110, 116>>, <<110, 116, 97>>, <<110, 116, 105>>,
    <<110, 116, 111, 109, 97>>, <<104, 110, 97>>, <<104, 111, 109, 97>>,
    <<98, 103, 104, 105, 116>>, <<98, 103, 104, 105, 116, 105>>, <<98, 103, 104, 105, 110, 97>>,
    <<98, 103, 104, 105, 116, 107>>, <<98, 103, 104, 105, 116, 107, 111, 109>>, <<98, 103, 104, 105, 116, 107, 111, 117, 109>>,
    <<103, 104, 97, 100, 105>>, <<103, 104, 97, 100, 97>>, <<103, 104, 97, 110, 109, 99, 104, 105>>,
    <<103, 104, 97, 110, 110, 100, 105, 114>>, <<98, 122, 97, 97, 102>>, <<98, 122, 97, 102>>,
    <<98, 122, 122, 97, 102>>, <<55, 105, 116>>, <<104, 105, 116>>,
    <<51, 108, 97, 99, 104>>, <<51, 108, 97>>, <<51, 108, 105, 104>>,
    <<51, 108, 105, 104, 97>>, <<119, 97, 99, 104>>, <<119, 97, 115, 104>>,
    <<119, 101, 115, 104>>, <<99, 104, 110, 111>>, <<99, 104, 110, 111, 117>>,
    <<99, 104, 110, 117>>, <<102, 105, 110>>, <<102, 101, 101, 110>>,
    <<102, 97, 121, 110>>, <<107, 105, 102, 97, 99, 104>>, <<107, 105, 102, 97, 115, 104>>,
    <<100, 97, 98, 97>>, <<100, 97, 98>>, <<100, 98>>,
    <<98, 103, 104>>, <<98, 103, 104, 105>>, <<98, 114, 105, 110, 97>>,
    <<106, 105, 98>>, <<106, 105, 98, 105>>, <<106, 105, 98, 104, 97>>,
    <<106, 105, 98, 104, 111, 109>>, <<97, 104, 115, 97, 110>>, <<97, 55, 115, 97, 110>>,
    <<55, 115, 97, 110>>, <<98, 52, 105, 110, 97>>, <<104, 97, 100>>,
    <<104, 97, 100, 97>>, <<104, 97, 100, 105>>, <<104, 97, 100, 99, 104, 105>>,
    <<98, 100, 97>>, <<98, 100, 105, 116>>, <<98, 100, 105, 110, 97>>,
    <<98, 100, 97, 119>>, <<97, 115, 104>>, <<97, 99, 104>>,
    <<107, 101, 110>>, <<107, 97, 110>>, <<107, 97, 110, 116>>,
    <<107, 97, 110, 111>>, <<122, 111, 117, 105, 105, 110>>, <<122, 119, 105, 110>>,
    <<122, 119, 105, 105, 110>>, <<122, 111, 117, 105, 105, 105, 110>>, <<106, 105, 116>>,
    <<106, 105, 116, 105>>, <<106, 97, 119>>, <<106, 105, 110, 97>>,
    <<98, 97, 107, 114, 105>>, <<98, 101, 107, 114, 105>>, <<98, 97, 107, 114, 105, 105>>,
    <<98, 97, 107, 114, 105, 105, 105>>, <<97, 107, 104, 105, 114, 97, 110>>, <<97, 107, 104, 105, 105, 114, 97, 110>>,
    <<97, 107, 104, 105, 105, 105, 105, 114, 97, 110>>, <<104, 99, 104, 111, 117, 109, 97>>, <<55, 99, 104, 111, 117, 109, 97>>,
    <<104, 99, 104, 111, 117, 109, 97, 97>>, <<98, 97, 110, 108, 105, 121, 97>>, <<98, 97, 110, 108, 105, 97>>,
    <<98, 97, 110, 108, 121, 97>>, <<100, 101, 114, 97, 116, 110, 105>>, <<100, 97, 114, 116, 110, 105>>,
    <<100, 101, 114, 116, 110, 105>>, <<102, 101, 114, 97, 115, 115, 105>>, <<102, 114, 97, 115, 115, 105>>,
    <<102, 114, 97, 115, 105>>, <<102, 105, 104, 97>>, <<107, 104, 105, 114>>,
    <<107, 104, 101, 105, 114>>, <<53, 105, 114>>, <<109, 97, 108, 104, 97>>,
    <<109, 97, 108, 55, 97>>, <<100, 97, 114, 98, 111>>, <<100, 97, 114, 98, 111, 117>>,
    <<100, 97, 114, 98, 111, 104>>, <<109, 115, 97, 109, 110, 97>>, <<109, 115, 101, 109, 110, 97>>,
    <<109, 115, 109, 110, 110, 97>>, <<116, 108, 97, 104>>, <<116, 108, 97, 55>>,
    <<100, 97, 121, 114>>, <<100, 97, 121, 101, 114>>, <<100, 97, 121, 114, 97>>,
    <<100, 97, 121, 114, 105, 110>>, <<108, 102, 101, 114, 100, 97>>, <<102, 101, 114, 100, 97>>,
    <<108, 102, 105, 114, 100, 97>>, <<108, 111, 119, 108>>, <<108, 119, 101, 108>>,
    <<108, 111, 117, 119, 101, 108>>, <<108, 111, 119, 97, 108>>, <<100, 119, 122, 104, 97>>,
    <<100, 119, 122, 104, 97, 97>>, <<100, 119, 101, 122, 104, 97>>, <<100, 119, 122, 104, 97, 97, 97>>,
    <<99, 104, 107, 111, 110>>, <<99, 104, 107, 111, 117, 110>>, <<115, 107, 104, 111, 110, 105, 121, 97, 116>>,
    <<115, 107, 104, 111, 117, 110, 105, 121, 97, 116>>, <<115, 53, 111, 110, 105, 121, 97, 116>>, <<100, 105, 109, 97>>,
    <<100, 105, 105, 109, 97>>, <<100, 105, 105, 105, 109, 97>>, <<109, 97, 103, 104, 114, 105, 98>>,
    <<108, 109, 97, 103, 104, 114, 105, 98>>, <<108, 109, 103, 104, 114, 105, 98>>, <<109, 103, 104, 114, 98>>,
    <<108, 97, 103, 105, 116, 111, 117>>, <<108, 103, 105, 116, 111>>, <<108, 103, 105, 116, 111, 104>>,
    <<108, 109, 101, 104, 115, 115, 97, 100, 97>>, <<108, 109, 55, 115, 115, 97, 100, 97>>, <<108, 109, 104, 115, 115, 97, 100, 97>>,
    <<109, 101, 104, 115, 115, 97, 100, 97>>, <<108, 109, 101, 104, 100, 97, 111, 117, 105>>, <<109, 101, 104, 100, 97, 111, 117, 105>>,
    <<109, 101, 104, 100, 97, 119, 105>>, <<108, 109, 104, 100, 97, 119, 105>>, <<122, 109, 97, 116, 107, 111, 117, 109>>,
    <<122, 109, 97, 116, 107, 111, 109>>, <<122, 109, 97, 116, 107, 117, 109>>, <<102, 114, 101, 99, 104, 104, 97>>,
    <<102, 114, 97, 99, 104, 104, 97>>, <<103, 121, 100, 97, 116, 111>>, <<103, 105, 100, 97, 116, 111>>,
    <<103, 117, 105, 100, 97, 116, 111>>, <<103, 105, 100, 97, 116, 111, 117>>, <<100, 97, 98, 122>>,
    <<100, 97, 98, 101, 122>>, <<100, 97, 98, 122, 122>>, <<100, 97, 98, 122, 122, 97>>,
    <<109, 105, 99, 114, 111, 98>>, <<109, 105, 107, 114, 111, 98>>, <<109, 107, 114, 111, 98>>,
    <<107, 104, 97, 119, 105>>, <<107, 104, 97, 119, 121, 97>>, <<53, 97, 119, 105>>,
    <<107, 97, 110, 100, 105, 114>>, <<107, 97, 116, 100, 105, 114>>, <<107, 97, 121, 100, 105, 114>>,
    <<107, 97, 110, 99, 104, 111, 102>>, <<107, 97, 116, 99, 104, 111, 102>>, <<107, 97, 121, 99, 104, 111, 102>>,
    <<107, 97, 110, 51, 114, 102>>, <<107, 97, 116, 51, 114, 102>>, <<107, 97, 121, 51, 114, 102>>,
    <<107, 97, 110, 98, 103, 104, 105>>, <<107, 97, 116, 98, 103, 104, 105>>, <<107, 97, 121, 98, 103, 104, 105>>,
    <<107, 97, 110, 109, 99, 104, 105>>, <<107, 97, 116, 109, 99, 104, 105>>, <<107, 97, 121, 109, 99, 104, 105>>,
    <<109, 97, 98, 103, 104, 105, 116, 99, 104>>, <<109, 97, 102, 104, 109, 116, 99, 104>>, <<109, 97, 51, 114, 102, 116, 99, 104>>,
    <<109, 97, 107, 121, 110, 99, 104>>, <<109, 97, 107, 97, 121, 110, 99, 104>>, <<109, 99, 104, 105, 116, 99, 104>>,
    <<109, 115, 107, 105, 110, 101>>, <<109, 115, 107, 105, 110, 97>>, <<109, 115, 107, 105, 110>>,
    <<119, 108, 97, 100>>, <<119, 108, 100>>, <<119, 108, 105, 100, 105>>,
    <<107, 111, 108, 99, 104, 105>>, <<107, 111, 108, 115, 104, 105>>, <<107, 117, 108, 115, 104, 105>>,
    <<109, 122, 121, 97, 110>>, <<109, 122, 121, 97, 110, 97>>, <<109, 101, 122, 121, 97, 110>>,
    <<109, 101, 122, 105, 97, 110, 97>>, <<122, 119, 105, 110, 97>>, <<122, 119, 101, 101, 110>>,
    <<107, 104, 111, 121, 97>>, <<107, 104, 111, 117, 121, 97>>, <<107, 104, 111>>,
    <<115, 97, 104, 98, 105>>, <<115, 97, 55, 98, 105>>, <<115, 55, 97, 98, 105>>,
    <<100, 121, 97, 108>>, <<100, 105, 97, 108>>, <<102, 104, 97, 100>>,
    <<98, 97, 99, 104>>, <<98, 97, 115, 104>>, <<98, 108, 97>>,
    <<98, 105, 108, 97>>, <<103, 104, 105>>, <<103, 104, 105, 114>>,
    <<103, 104, 101, 114>>, <<116, 97>>, <<116, 97, 97>>,
    <<114, 97, 104>>, <<115, 105, 114>>, <<115, 105, 114, 105>>,
    <<97, 106, 105>>, <<115, 97, 102, 105>>, <<115, 97, 97, 102, 105>>,
    <<115, 97, 102, 105, 105>>, <<119, 97, 51, 114>>, <<119, 97, 51, 114, 97>>,
    <<119, 97, 101, 114>>, <<119, 97, 101, 114, 97>>, <<107, 104, 97, 121, 98>>,
    <<107, 104, 97, 121, 98, 97>>, <<53, 97, 121, 98>>, <<119, 97, 108, 97, 107, 105, 110>>,
    <<119, 97, 108, 97, 107, 105, 110, 101>>, <<109, 97, 99, 104, 105>>, <<109, 97, 115, 104, 105>>,
    <<115, 97, 114, 97, 104, 97>>, <<115, 97, 114, 97, 55, 97>>, <<115, 114, 97, 104, 97>>,
    <<104, 97, 109, 100, 97>>, <<104, 97, 109, 100, 111, 108, 97>>, <<104, 97, 109, 100, 111, 108, 97, 104>>,
    <<104, 97, 109, 100, 111, 117, 108, 97, 104>>, <<104, 97, 109, 100, 111, 117, 108, 108, 97, 104>>, <<104, 97, 109, 100, 111, 117, 108, 97>>,
    <<104, 97, 109, 100, 111, 117, 108, 105, 108, 108, 97, 104>>, <<116, 98, 97, 114, 107, 108, 108, 97, 104>>, <<116, 98, 97, 114, 107>>,
    <<116, 98, 97, 114, 101, 107>>, <<109, 97, 99, 104, 97, 108, 108, 97, 104>>, <<109, 97, 115, 104, 97, 108, 108, 97, 104>>,
    <<110, 99, 104, 97, 108, 97, 104>>, <<105, 110, 99, 104, 97, 108, 108, 97, 104>>, <<110, 115, 104, 97, 108, 108, 97, 104>>,
    <<99, 104, 104, 97, 108>>, <<99, 104, 55, 97, 108>>, <<115, 104, 107, 111, 117, 110>>,
    <<51, 106, 98, 110, 105>>, <<97, 106, 101, 98, 110, 105>>, <<51, 97, 106, 98, 110, 105>>,
    <<100, 105, 114>>, <<100, 105, 114, 105>>, <<100, 105, 114, 111>>,
    <<99, 104, 111, 117, 102>>, <<99, 104, 111, 102>>, <<115, 109, 105, 121, 97>>,
    <<115, 109, 105, 116, 105>>, <<122, 119, 97, 106>>, <<107, 104, 100, 109, 97>>,
    <<107, 104, 101, 100, 109, 97>>, <<102, 108, 111, 117, 115>>, <<102, 108, 111, 117, 115, 115>>,
    <<100, 114, 97, 114, 105>>, <<119, 97, 108, 111>>, <<119, 97, 108, 111, 117>>,
    <<119, 97, 108, 108, 111, 111>>, <<119, 97, 107, 104, 97>>, <<119, 97, 107, 104, 104, 97>>,
    <<121, 97, 107>>, <<121, 97, 107, 107>>, <<121, 97, 107, 107, 107>>,
    <<101, 119, 97>>, <<97, 119, 97>>, <<97, 119, 97, 97>>,
    <<101, 119, 97, 97>>, <<105, 108, 97>>, <<105, 108, 97, 97>>,
    <<105, 108, 97, 97, 97>>, <<55, 116, 97>>, <<104, 116, 97>>,
    <<55, 116, 116, 97>>, <<104, 116, 116, 97, 97>>, <<98, 101, 115, 115, 97, 55>>,
    <<98, 115, 97, 55>>, <<98, 101, 115, 115, 97, 55, 55>>, <<51, 97, 102, 97, 107>>,
    <<51, 97, 102, 97, 97, 107>>, <<51, 97, 102, 97, 107, 107>>, <<99, 104, 111, 107, 114, 97, 110>>,
    <<99, 104, 111, 117, 107, 114, 97, 110>>, <<99, 104, 111, 107, 114, 97, 97, 110>>, <<115, 109, 101, 104>>,
    <<115, 109, 101, 55>>, <<115, 109, 101, 104, 108, 105>>, <<115, 109, 101, 55, 108, 105>>,
    <<98, 108, 97, 116, 105>>, <<98, 108, 97, 97, 116, 105>>, <<98, 97, 114, 97, 107, 97>>,
    <<98, 97, 114, 97, 107, 97, 97>>, <<98, 97, 114, 97, 107, 97, 97, 97>>, <<121, 97, 108, 97, 104>>,
    <<121, 97, 108, 108, 97, 104>>, <<121, 97, 108, 108, 97, 97, 104>>, <<104, 97, 110, 105, 97>>,
    <<104, 97, 110, 105, 97, 97>>, <<51, 108, 97, 115, 104>>, <<51, 108, 97, 99, 104, 104>>,
    <<102, 105, 110, 101, 107>>, <<102, 105, 110, 101, 107, 107>>, <<119, 105, 110, 101, 107>>,
    <<119, 105, 110, 101, 107, 107>>, <<99, 104, 110, 97, 104, 105, 121, 97>>, <<99, 104, 110, 97, 104, 105, 97>>,
    <<99, 104, 110, 97, 104, 105, 121, 97, 97>>, <<108, 97, 98, 97, 115>>, <<108, 97, 98, 97, 97, 115>>,
    <<108, 97, 98, 97, 115, 115>>, <<98, 105, 107, 104, 105, 114>>, <<98, 105, 53, 105, 114>>,
    <<104, 97, 109, 100, 117, 108, 108, 97, 104>>, <<104, 97, 109, 100, 111, 108, 108, 97, 104>>, <<55, 97, 109, 100, 111, 108, 108, 97, 104>>,
    <<110, 99, 104, 111, 102, 111>>, <<110, 99, 104, 111, 102, 111, 117>>, <<110, 99, 104, 111, 102, 111, 117, 107>>,
    <<116, 106, 105>>, <<116, 106, 105, 105>>, <<110, 109, 99, 104, 105>>,
    <<110, 109, 99, 104, 105, 105>>, <<110, 114, 106, 51>>, <<110, 114, 106, 101, 51>>,
    <<107, 104, 116, 105>>, <<107, 104, 116, 105, 105>>, <<119, 108, 100, 105>>,
    <<119, 108, 100, 105, 105>>, <<98, 110, 116, 105>>, <<98, 110, 116, 105, 105>>,
    <<114, 97, 106, 108, 105>>, <<114, 97, 106, 108, 105, 105>>, <<109, 114, 97, 116, 105>>,
    <<109, 114, 97, 116, 105, 105>>
  }

\* _GENERIC_PHRASES (preprocessing.py lines 362-376): 23 distinct entries,
\* each written as its sequence of Unicode code points.
_GENERIC_PHRASES ==
  {
    <<1605, 1575, 32, 1588, 1575, 1569, 32, 1575, 1604, 1604, 1607>>,  \* ما شاء الله
    <<1605, 1575, 1588, 1575, 1569, 32, 1575, 1604, 1604, 1607>>,  \* ماشاء الله
    <<1575, 1604, 1604, 1607, 1605, 32, 1576, 1575, 1585, 1603>>,  \* اللهم بارك
    <<1575, 1604, 1604, 1607, 1605, 32, 1576, 1575, 1585, 1603, 32, 1601, 1610, 1603>>,  \* اللهم بارك فيك
    <<1575, 1604, 1604, 1607, 32, 1610, 1576, 1575, 1585, 1603>>,  \* الله يبارك
    <<1575, 1604, 1604, 1607, 32, 1610, 1576, 1575, 1585, 1603, 32, 1601, 1610, 1603>>,  \* الله يبارك فيك
    <<1576, 1575, 1585, 1603, 32, 1575, 1604, 1604, 1607, 32, 1601, 1610, 1603>>,  \* بارك الله فيك
    <<1576, 1575, 1585, 1603, 32, 1575, 1604, 1604, 1607>>,  \* بارك الله
    <<1575, 1604, 1581, 1605, 1583, 32, 1604, 1604, 1607>>,  \* الحمد لله
    <<1587, 1576, 1581, 1575, 1606, 32, 1575, 1604, 1604, 1607>>,  \* سبحان الله
    <<1604, 1575, 32, 1575, 1604, 1607, 32, 1575, 1604, 1575, 32, 1575, 1604, 1604, 1607>>,  \* لا اله الا الله
    <<1604, 1575, 32, 1573, 1604, 1607, 32, 1573, 1604, 1575, 32, 1575, 1604, 1604, 1607>>,  \* لا إله إلا الله
    <<1575, 1604, 1604, 1607, 1605, 32, 1589, 1604, 32, 1593, 1604, 1609, 32, 1605, 1581, 1605, 1583>>,  \* اللهم صل على محمد
    <<1575, 1604, 1604, 1607, 1605, 32, 1589, 1604, 32, 1608, 1587, 1604, 1605>>,  \* اللهم صل وسلم
    <<1605, 1575, 32, 1588, 1575, 1569, 32, 1575, 1604, 1604, 1607, 32, 1578, 1576, 1575, 1585, 1603, 32, 1575, 1604, 1585, 1581, 1605, 1606>>,  \* ما شاء الله تبارك الرحمن
    <<1587, 1576, 1581, 1575, 1606, 32, 1575, 1604, 1604, 1607, 32, 1608, 1576, 1581, 1605, 1583, 1607>>,  \* سبحان الله وبحمده
    <<1587, 1576, 1581, 1575, 1606, 32, 1575, 1604, 1604, 1607, 32, 1575, 1604, 1593, 1592, 1610, 1605>>,  \* سبحان الله العظيم
    <<1604, 1575, 32, 1581, 1608, 1604, 32, 1608, 1604, 1575, 32, 1602, 1608, 1577, 32, 1575, 1604, 1575, 32, 1576, 1575, 1604, 1604, 1607>>,  \* لا حول ولا قوة الا بالله
    <<1604, 1575, 32, 1581, 1608, 1604, 32, 1608, 1604, 1575, 32, 1602, 1608, 1577, 32, 1573, 1604, 1575, 32, 1576, 1575, 1604, 1604, 1607>>,  \* لا حول ولا قوة إلا بالله
    <<1575, 1587, 1578, 1594, 1601, 1585, 32, 1575, 1604, 1604, 1607, 32, 1575, 1604, 1593, 1592, 1610, 1605>>,  \* استغفر الله العظيم
    <<1575, 1587, 1578, 1594, 1601, 1585, 32, 1575, 1604, 1604, 1607>>,  \* استغفر الله
    <<1575, 1604, 1604, 1607, 32, 1575, 1603, 1576, 1585>>,  \* الله اكبر
    <<1575, 1604, 1604, 1607, 32, 1571, 1603, 1576, 1585>>  \* الله أكبر
  }

\* _GENERIC_TOKENS (preprocessing.py lines 378-380): 4 distinct entries,
\* each written as its sequence of Unicode code points.
_GENERIC_TOKENS ==
  {
    <<1575, 1604, 1604, 1607, 1605>>,  \* اللهم
    <<1587, 1576, 1581, 1575, 1606>>,  \* سبحان
    <<1575, 1587, 1578, 1594, 1601, 1585>>,  \* استغفر
    <<1575, 1604, 1581, 1605, 1583>>  \* الحمد
  }

\* _SENTIMENT_LEXICON (preprocessing.py lines 387-436): 177 distinct entries,
\* each written as its sequence of Unicode code points.
_SENTIMENT_LEXICON ==
  {
    <<1582, 1575, 1610, 1576>>,  \* خايب
    <<1582, 1575, 1610, 1576, 1577>>,  \* خايبة
    <<1581, 1575, 1605, 1590>>,  \* حامض
    <<1610, 1582>>,  \* يخ
    <<1605, 1602, 1585, 1601>>,  \* مقرف
    <<1603, 1575, 1585, 1579, 1577>>,  \* كارثة
    <<1603, 1575, 1585, 1579, 1607>>,  \* كارثه
    <<1601, 1575, 1588, 1604>>,  \* فاشل
    <<1601, 1575, 1588, 1604, 1577>>,  \* فاشلة
    <<1578, 1601, 1608>>,  \* تفو
    <<1602, 1576, 1610, 1581>>,  \* قبيح
    <<1602, 1576, 1610, 1581, 1577>>,  \* قبيحة
    <<1606, 1602, 1586>>,  \* نقز
    <<1581, 1588, 1608, 1605, 1577>>,  \* حشومة
    <<1581, 1588, 1608, 1605, 1607>>,  \* حشومه
    <<1593, 1610, 1576>>,  \* عيب
    <<1581, 1605, 1575, 1585>>,  \* حمار
    <<1581, 1605, 1575, 1585, 1577>>,  \* حمارة
    <<1576, 1594, 1604>>,  \* بغل
    <<1586, 1576, 1604>>,  \* زبل
    <<1602, 1605, 1575, 1605, 1577>>,  \* قمامة
    <<1602, 1605, 1575, 1605, 1607>>,  \* قمامه
    <<1582, 1606, 1586>>,  \* خنز
    <<1603, 1585, 1610, 1607>>,  \* كريه
    <<1603, 1585, 1610, 1607, 1577>>,  \* كريهة
    <<1605, 1594, 1576, 1606>>,  \* مغبن
    <<1587, 1575, 1582, 1591>>,  \* ساخط
    <<1590, 1593, 1610, 1601>>,  \* ضعيف
    <<1590, 1593, 1610, 1601, 1577>>,  \* ضعيفة
    <<1589, 1601, 1585>>,  \* صفر
    <<1606, 1575, 1586, 1604>>,  \* نازل
    <<1606, 1575, 1586, 1604, 1577>>,  \* نازلة
    <<1582, 1575, 1587, 1585>>,  \* خاسر
    <<1582, 1575, 1587, 1585, 1577>>,  \* خاسرة
    <<1601, 1575, 1587, 1583>>,  \* فاسد
    <<1601, 1575, 1587, 1583, 1577>>,  \* فاسدة
    <<1605, 1585, 1610, 1590>>,  \* مريض
    <<1605, 1585, 1610, 1590, 1577>>,  \* مريضة
    <<1594, 1576, 1610>>,  \* غبي
    <<1594, 1576, 1610, 1577>>,  \* غبية
    <<1576, 1604, 1610, 1583>>,  \* بليد
    <<1576, 1604, 1610, 1583, 1577>>,  \* بليدة
    <<1580, 1575, 1607, 1604>>,  \* جاهل
    <<1580, 1575, 1607, 1604, 1577>>,  \* جاهلة
    <<1605, 1603, 1585, 1608, 1607>>,  \* مكروه
    <<1605, 1606, 1575, 1601, 1602>>,  \* منافق
    <<1603, 1584, 1575, 1576>>,  \* كذاب
    <<1603, 1584, 1575, 1576, 1577>>,  \* كذابة
    <<1581, 1602, 1610, 1585>>,  \* حقير
    <<1581, 1602, 1610, 1585, 1577>>,  \* حقيرة
    <<1608, 1587, 1582>>,  \* وسخ
    <<1608, 1587, 1582, 1577>>,  \* وسخة
    <<1602, 1584, 1585>>,  \* قذر
    <<1602, 1584, 1585, 1577>>,  \* قذرة
    <<1606, 1580, 1587>>,  \* نجس
    <<1605, 1610, 1603, 1585, 1608, 1576>>,  \* ميكروب
    <<1582, 1575, 1608, 1610>>,  \* خاوي
    <<1582, 1575, 1608, 1610, 1577>>,  \* خاوية
    <<1583, 1575, 1576, 1586>>,  \* دابز
    <<1586, 1608, 1610, 1606>>,  \* زوين
    <<1586, 1608, 1610, 1606, 1577>>,  \* زوينة
    <<1586, 1608, 1610, 1610, 1606>>,  \* زويين
    <<1586, 1608, 1610, 1610, 1606, 1577>>,  \* زويينة
    <<1605, 1586, 1610, 1575, 1606>>,  \* مزيان
    <<1605, 1586, 1610, 1575, 1606, 1577>>,  \* مزيانة
    <<1605, 1586, 1610, 1575, 1606, 1610, 1606>>,  \* مزيانين
    <<1585, 1608, 1593, 1577>>,  \* روعة
    <<1585, 1575, 1574, 1593>>,  \* رائع
    <<1585, 1575, 1574, 1593, 1577>>,  \* رائعة
    <<1608, 1575, 1593, 1585>>,  \* واعر
    <<1608, 1575, 1593, 1585, 1577>>,  \* واعرة
    <<1608, 1575, 1593, 1585, 1610, 1606>>,  \* واعرين
    <<1591, 1608, 1576>>,  \* طوب
    <<1606, 1590, 1610, 1601>>,  \* نضيف
    <<1606, 1590, 1610, 1601, 1577>>,  \* نضيفة
    <<1576, 1608, 1605, 1576, 1575>>,  \* بومبا
    <<1605, 1605, 1578, 1575, 1586>>,  \* ممتاز
    <<1605, 1605, 1578, 1575, 1586, 1577>>,  \* ممتازة
    <<1593, 1592, 1610, 1605>>,  \* عظيم
    <<1593, 1592, 1610, 1605, 1577>>,  \* عظيمة
    <<1580, 1605, 1610, 1604>>,  \* جميل
    <<1580, 1605, 1610, 1604, 1577>>,  \* جميلة
    <<1581, 1604, 1608>>,  \* حلو
    <<1581, 1604, 1608, 1577>>,  \* حلوة
    <<1582, 1591, 1610, 1585>>,  \* خطير
    <<1582, 1591, 1610, 1585, 1577>>,  \* خطيرة
    <<1601, 1575, 1576, 1608, 1585>>,  \* فابور
    <<1602, 1606, 1576, 1604, 1577>>,  \* قنبلة
    <<1602, 1606, 1576, 1604, 1607>>,  \* قنبله
    <<1583, 1610, 1605, 1575>>,  \* ديما
    <<1601, 1582, 1585>>,  \* فخر
    <<1601, 1582, 1608, 1585>>,  \* فخور
    <<1588, 1603, 1585, 1575>>,  \* شكرا
    <<1588, 1603, 1585, 1575, 1611>>,  \* شكراً
    <<1578, 1581, 1610, 1577>>,  \* تحية
    <<1578, 1581, 1610, 1607>>,  \* تحيه
    <<1606, 1580, 1605>>,  \* نجم
    <<1606, 1580, 1605, 1577>>,  \* نجمة
    <<1576, 1591, 1604>>,  \* بطل
    <<1576, 1591, 1604, 1577>>,  \* بطلة
    <<1575, 1587, 1591, 1608, 1585, 1577>>,  \* اسطورة
    <<1575, 1587, 1591, 1608, 1585, 1607>>,  \* اسطوره
    <<1571, 1587, 1591, 1608, 1585, 1577>>,  \* أسطورة
    <<1581, 1576>>,  \* حب
    <<1581, 1576, 1610, 1578>>,  \* حبيت
    <<1593, 1588, 1602>>,  \* عشق
    <<1593, 1588, 1602, 1578>>,  \* عشقت
    <<1601, 1585, 1581, 1575, 1606>>,  \* فرحان
    <<1601, 1585, 1581, 1575, 1606, 1577>>,  \* فرحانة
    <<1587, 1593, 1610, 1583>>,  \* سعيد
    <<1587, 1593, 1610, 1583, 1577>>,  \* سعيدة
    <<1605, 1576, 1585, 1608, 1603>>,  \* مبروك
    <<1605, 1576, 1585, 1608, 1603, 1577>>,  \* مبروكة
    <<1578, 1607, 1606, 1574, 1577>>,  \* تهنئة
    <<1571, 1581, 1587, 1606>>,  \* أحسن
    <<1575, 1581, 1587, 1606>>,  \* احسن
    <<1582, 1610, 1585>>,  \* خير
    <<116, 102, 111>>, <<57, 98, 105, 55>>, <<102, 97, 115, 104, 101, 108>>,
    <<102, 97, 115, 104, 108, 97>>, <<104, 99, 104, 111, 117, 109, 97>>, <<55, 99, 104, 111, 117, 109, 97>>,
    <<53, 97, 121, 98>>, <<107, 104, 97, 121, 98>>, <<107, 104, 97, 121, 98, 97>>,
    <<55, 109, 97, 114>>, <<55, 109, 97, 114, 97>>, <<104, 109, 97, 114>>,
    <<104, 109, 97, 114, 97>>, <<109, 57, 114, 102>>, <<109, 113, 114, 102>>,
    <<109, 105, 99, 114, 111, 98>>, <<109, 105, 107, 114, 111, 98>>, <<107, 104, 97, 119, 105>>,
    <<107, 104, 97, 119, 121, 97>>, <<100, 97, 98, 122>>, <<100, 97, 98, 101, 122>>,
    <<116, 111, 112>>, <<116, 111, 111, 111, 112>>, <<116, 111, 111, 111, 111, 112>>,
    <<98, 114, 97, 118, 111>>, <<98, 114, 97, 118, 111, 111, 111>>, <<51, 106, 98, 110, 105>>,
    <<51, 97, 106, 98, 110, 105>>, <<97, 106, 101, 98, 110, 105>>, <<122, 119, 105, 110>>,
    <<122, 119, 105, 110, 97>>, <<122, 119, 101, 101, 110>>, <<122, 119, 101, 101, 110, 97>>,
    <<122, 111, 117, 105, 105, 110>>, <<122, 111, 117, 105, 105, 105, 110>>, <<119, 97, 51, 114>>,
    <<119, 97, 51, 114, 97>>, <<119, 97, 101, 114>>, <<119, 97, 101, 114, 97>>,
    <<109, 122, 121, 97, 110>>, <<109, 122, 121, 97, 110, 97>>, <<109, 101, 122, 121, 97, 110>>,
    <<116, 98, 97, 114, 107, 108, 108, 97, 104>>, <<116, 98, 97, 114, 107>>, <<116, 98, 97, 114, 101, 107>>,
    <<109, 97, 99, 104, 97, 108, 108, 97, 104>>, <<109, 97, 115, 104, 97, 108, 108, 97, 104>>, <<110, 105, 99, 101>>,
    <<99, 111, 111, 108>>, <<103, 114, 101, 97, 116>>, <<97, 109, 97, 122, 105, 110, 103>>,
    <<97, 119, 101, 115, 111, 109, 101>>, <<108, 111, 118, 101>>, <<108, 111, 118, 101, 100>>,
    <<98, 101, 115, 116>>, <<97, 104, 115, 97, 110>>, <<97, 55, 115, 97, 110>>,
    <<107, 104, 105, 114>>, <<107, 104, 101, 105, 114>>, <<53, 105, 114>>
  }

\* _MSA_MARKERS (preprocessing.py lines 443-462): 84 distinct entries,
\* each written as its sequence of Unicode code points.
_MSA_MARKERS ==
  {
    <<1610, 1580, 1576>>,  \* يجب
    <<1610, 1606, 1576, 1594, 1610>>,  \* ينبغي
    <<1604, 1603, 1606>>,  \* لكن
    <<1604, 1584, 1604, 1603>>,  \* لذلك
    <<1576, 1587, 1576, 1576>>,  \* بسبب
    <<1575, 1604, 1584, 1610>>,  \* الذي
    <<1575, 1604, 1578, 1610>>,  \* التي
    <<1575, 1604, 1584, 1610, 1606>>,  \* الذين
    <<1575, 1604, 1604, 1575, 1578, 1610>>,  \* اللاتي
    <<1575, 1604, 1604, 1608, 1575, 1578, 1610>>,  \* اللواتي
    <<1581, 1610, 1579>>,  \* حيث
    <<1576, 1575, 1604, 1578, 1575, 1604, 1610>>,  \* بالتالي
    <<1603, 1605, 1575>>,  \* كما
    <<1608, 1602, 1583>>,  \* وقد
    <<1578, 1605>>,  \* تم
    <<1604, 1583, 1609>>,  \* لدى
    <<1571, 1610, 1590, 1575, 1611>>,  \* أيضاً
    <<1571, 1610, 1590, 1575>>,  \* أيضا
    <<1575, 1610, 1590, 1575>>,  \* ايضا
    <<1593, 1604, 1575, 1608, 1577>>,  \* علاوة
    <<1601, 1590, 1604, 1575, 1611>>,  \* فضلاً
    <<1601, 1590, 1604, 1575>>,  \* فضلا
    <<1576, 1610, 1606, 1605, 1575>>,  \* بينما
    <<1585, 1594, 1605>>,  \* رغم
    <<1605, 1605, 1575>>,  \* مما
    <<1573, 1584>>,  \* إذ
    <<1608, 1601, 1602>>,  \* وفق
    <<1608, 1601, 1602, 1575, 1611>>,  \* وفقاً
    <<1606, 1581, 1608>>,  \* نحو
    <<1582, 1604, 1575, 1604>>,  \* خلال
    <<1590, 1605, 1606>>,  \* ضمن
    <<1578, 1580, 1575, 1607>>,  \* تجاه
    <<1576, 1588, 1571, 1606>>,  \* بشأن
    <<1606, 1592, 1585, 1575, 1611>>,  \* نظراً
    <<1606, 1592, 1585, 1575>>,  \* نظرا
    <<1573, 1579, 1585>>,  \* إثر
    <<1575, 1579, 1585>>,  \* اثر
    <<1593, 1602, 1576>>,  \* عقب
    <<1587, 1608, 1609>>,  \* سوى
    <<1583, 1608, 1606>>,  \* دون
    <<1602, 1576, 1604>>,  \* قبل
    <<1576, 1593, 1583>>,  \* بعد
    <<1593, 1576, 1585>>,  \* عبر
    <<1590, 1583>>,  \* ضد
    <<1610, 1578, 1608, 1580, 1576>>,  \* يتوجب
    <<1610, 1587, 1578, 1604, 1586, 1605>>,  \* يستلزم
    <<1610, 1578, 1591, 1604, 1576>>,  \* يتطلب
    <<1610, 1602, 1578, 1590, 1610>>,  \* يقتضي
    <<1610, 1615, 1593, 1583>>,  \* يُعد
    <<1610, 1593, 1583>>,  \* يعد
    <<1578, 1615, 1593, 1583>>,  \* تُعد
    <<1578, 1593, 1583>>,  \* تعد
    <<1610, 1615, 1593, 1578, 1576, 1585>>,  \* يُعتبر
    <<1610, 1593, 1578, 1576, 1585>>,  \* يعتبر
    <<1578, 1615, 1593, 1578, 1576, 1585>>,  \* تُعتبر
    <<1578, 1593, 1578, 1576, 1585>>,  \* تعتبر
    <<1571, 1603, 1583>>,  \* أكد
    <<1571, 1603, 1583, 1578>>,  \* أكدت
    <<1610, 1572, 1603, 1583>>,  \* يؤكد
    <<1578, 1572, 1603, 1583>>,  \* تؤكد
    <<1571, 1588, 1575, 1585>>,  \* أشار
    <<1571, 1588, 1575, 1585, 1578>>,  \* أشارت
    <<1610, 1588, 1610, 1585>>,  \* يشير
    <<1578, 1588, 1610, 1585>>,  \* تشير
    <<1571, 1608, 1590, 1581>>,  \* أوضح
    <<1571, 1608, 1590, 1581, 1578>>,  \* أوضحت
    <<1610, 1608, 1590, 1581>>,  \* يوضح
    <<1578, 1608, 1590, 1581>>,  \* توضح
    <<1589, 1585, 1581>>,  \* صرح
    <<1589, 1585, 1581, 1578>>,  \* صرحت
    <<1610, 1589, 1585, 1581>>,  \* يصرح
    <<1578, 1589, 1585, 1581>>,  \* تصرح
    <<1575, 1604, 1605, 1608, 1575, 1591, 1606, 1608, 1606>>,  \* المواطنون
    <<1575, 1604, 1605, 1608, 1575, 1591, 1606, 1610, 1606>>,  \* المواطنين
    <<1575, 1604, 1581, 1603, 1608, 1605, 1577>>,  \* الحكومة
    <<1575, 1604, 1583, 1608, 1604, 1577>>,  \* الدولة
    <<1575, 1604, 1605, 1580, 1578, 1605, 1593>>,  \* المجتمع
    <<1575, 1604, 1587, 1610, 1575, 1587, 1577>>,  \* السياسة
    <<1575, 1604, 1575, 1602, 1578, 1589, 1575, 1583>>,  \* الاقتصاد
    <<1575, 1604, 1578, 1606, 1605, 1610, 1577>>,  \* التنمية
    <<1575, 1604, 1605, 1572, 1587, 1587, 1575, 1578>>,  \* المؤسسات
    <<1575, 1604, 1573, 1583, 1575, 1585, 1577>>,  \* الإدارة
    <<1575, 1604, 1602, 1575, 1606, 1608, 1606>>,  \* القانون
    <<1575, 1604, 1583, 1587, 1578, 1608, 1585>>  \* الدستور
  }

\* _RELIGIOUS_MARKERS_STRICT (preprocessing.py lines 465-471): 16 distinct entries,
\* each written as its sequence of Unicode code points.
_RELIGIOUS_MARKERS_STRICT ==
  {
    <<1575, 1604, 1604, 1607, 1605>>,  \* اللهم
    <<1585, 1587, 1608, 1604>>,  \* رسول
    <<1575, 1604, 1606, 1576, 1610>>,  \* النبي
    <<1575, 1604, 1605, 1587, 1604, 1605, 1610, 1606>>,  \* المسلمين
    <<1575, 1604, 1583, 1593, 1575, 1569>>,  \* الدعاء
    <<1589, 1581, 1576, 1607>>,  \* صحبه
    <<1571, 1580, 1605, 1593, 1610, 1606>>,  \* أجمعين
    <<1608, 1587, 1604, 1605>>,  \* وسلم
    <<1606, 1576, 1610, 1606, 1575>>,  \* نبينا
    <<1570, 1604, 1607>>,  \* آله
    <<1575, 1587, 1578, 1594, 1601, 1585>>,  \* استغفر
    <<1608, 1576, 1581, 1605, 1583, 1607>>,  \* وبحمده
    <<1589, 1604, 1609, 32, 1575, 1604, 1604, 1607, 32, 1593, 1604, 1610, 1607, 32, 1608, 1587, 1604, 1605>>,  \* صلى الله عليه وسلم
    <<1593, 1604, 1610, 1607, 32, 1575, 1604, 1587, 1604, 1575, 1605>>,  \* عليه السلام
    <<1585, 1590, 1610, 32, 1575, 1604, 1604, 1607, 32, 1593, 1606, 1607>>,  \* رضي الله عنه
    <<1585, 1590, 1610, 32, 1575, 1604, 1604, 1607, 32, 1593, 1606, 1607, 1575>>  \* رضي الله عنها
  }

\* _SPAM_PATTERNS (preprocessing.py lines 474-482): 32 distinct entries,
\* each written as its sequence of Unicode code points.
_SPAM_PATTERNS ==
  {
    <<115, 117, 98, 115, 99, 114, 105, 98, 101>>, <<99, 104, 97, 110, 110, 101, 108>>, <<112, 108, 101, 97, 115, 101>>,
    <<102, 111, 108, 108, 111, 119>>, <<99, 104, 101, 99, 107>>, <<99, 108, 105, 99, 107>>,
    <<108, 105, 110, 107>>, <<98, 105, 111>>, <<118, 105, 115, 105, 116>>,
    <<119, 101, 98, 115, 105, 116, 101>>, <<102, 114, 101, 101>>, <<119, 105, 110>>,
    <<103, 105, 102, 116>>, <<109, 111, 110, 101, 121>>, <<101, 97, 114, 110>>,
    <<103, 105, 118, 101, 97, 119, 97, 121>>, <<112, 114, 111, 109, 111, 116, 105, 111, 110>>, <<100, 105, 115, 99, 111, 117, 110, 116>>,
    <<111, 102, 102, 101, 114>>, <<98, 111, 110, 106, 111, 117, 114>>, <<109, 101, 114, 99, 105>>,
    <<115, 97, 108, 117, 116>>, <<99, 111, 109, 109, 101, 110, 116>>, <<112, 111, 117, 114, 113, 117, 111, 105>>,
    <<112, 97, 114, 99, 101>>, <<118, 114, 97, 105, 109, 101, 110, 116>>, <<116, 101, 108, 108, 101, 109, 101, 110, 116>>,
    <<106, 97, 109, 97, 105, 115>>, <<116, 111, 117, 106, 111, 117, 114, 115>>, <<97, 117, 106, 111, 117, 114, 100>>,
    <<100, 101, 109, 97, 105, 110>>, <<104, 105, 101, 114>>
  }

-----------------------------------------------------------------------------
(* Configuration (preprocessing.py 489-504) *)

\* PreprocessConfig().  darija_ratio_threshold is held in hundredths
\* (0.4 is 40), so that the comparison ratio < threshold is exact.
DefaultConfig ==
  [type |-> "PreprocessConfig",
   min_tokens |-> 1,
   darija_ratio_threshold |-> 40,
   min_darija_hits |-> 1,
   allow_mixed_script |-> TRUE,
   allow_arabizi |-> TRUE,
   allow_arabic_no_markers |-> TRUE,
   arabic_no_markers_max_tokens |-> 18,
   allow_latin_no_markers |-> FALSE,
   latin_no_markers_max_tokens |-> 5,
   keep_short_if_sentiment |-> TRUE,
   drop_emoji_only |-> TRUE,
   drop_religious_msa |-> TRUE,
   drop_generic_phrases |-> TRUE,
   drop_spam |-> TRUE]

-----------------------------------------------------------------------------
(* Detection functions (preprocessing.py 573-714) *)

_remove_stopwords(tokens) == SelectSeq(tokens, LAMBDA tok : tok \notin _STOPWORDS)

_has_letters(t) == HasArabic(t) \/ HasLatin(t)

_is_emoji_only(t, lib) ==
  IF Len(t) = 0 THEN TRUE
  ELSE ~_has_letters(_strip_noise(t, lib))

\* re.search(r"[23579]", tok)
HasArabiziDigit(tok) == \E i \in 1..Len(tok) : tok[i] \in {50, 51, 53, 55, 57}

_darija_stats(tokens) ==
  IF Len(tokens) = 0
  THEN [darija_hits |-> 0, darija_morphology |-> 0, msa_hits |-> 0,
        spam_hits |-> 0, has_arabic |-> FALSE, has_latin |-> FALSE,
        has_arabizi_digits |-> FALSE]
  ELSE [darija_hits |->
          CountTrue([i \in 1..Len(tokens) |->
                       \/ tokens[i] \in _DARIJA_MARKERS
                       \/ Lower(tokens[i]) \in _DARIJA_MARKERS]),
        darija_morphology |-> _has_darija_morphology(tokens),
        msa_hits |->
          CountTrue([i \in 1..Len(tokens) |-> tokens[i] \in _MSA_MARKERS]),
        spam_hits |->
          CountTrue([i \in 1..Len(tokens) |-> Lower(tokens[i]) \in _SPAM_PATTERNS]),
        has_arabic |-> \E i \in 1..Len(tokens) : HasArabic(tokens[i]),
        has_latin |-> \E i \in 1..Len(tokens) : HasLatin(tokens[i]),
        has_arabizi_digits |-> \E i \in 1..Len(tokens) : HasArabiziDigit(tokens[i])]

\* The Latin-only branch without its test of the spam ratio.
LatinOnlyIgnoringSpam(tokens, c, spam_hits) ==
  \/ \E i \in 1..Len(tokens) : Lower(tokens[i]) \in _DARIJA_MARKERS
  \/ \E i \in 1..Len(tokens) :
       \/ LatinNegationMatch(Lower(tokens[i]))
       \/ LatinVerbPrefixMatch(Lower(tokens[i]))
  \/ c.allow_latin_no_markers /\ Len(tokens) <= c.latin_no_markers_max_tokens

\* The Latin-only branch of _is_darija (preprocessing.py 649-666).
LatinOnlyBranch(tokens, c, spam_hits) ==
  IF c.drop_spam /\ spam_hits > 0 /\ 10 * spam_hits > 3 * Len(tokens)
  THEN FALSE
  ELSE IF \E i \in 1..Len(tokens) : Lower(tokens[i]) \in _DARIJA_MARKERS
  THEN TRUE
  ELSE IF \E i \in 1..Len(tokens) :
            \/ LatinNegationMatch(Lower(tokens[i]))
            \/ LatinVerbPrefixMatch(Lower(tokens[i]))
  THEN TRUE
  ELSE IF c.allow_latin_no_markers /\ Len(tokens) <= c.latin_no_markers_max_tokens
  THEN TRUE
  ELSE FALSE

\* total_darija = darija_hits + darija_morphology (preprocessing.py 628)
TotalDarija(stats) == stats.darija_hits + stats.darija_morphology

\* A ratio test that also fails the ratio equal to the threshold.
RatioNotAbove(total_darija, msa_hits, c) ==
  total_darija * 100 <= c.darija_ratio_threshold * (total_darija + msa_hits)

\* preprocessing.py 634-636: ratio < cfg.darija_ratio_threshold, for
\* ratio = total_darija / (total_darija + msa_hits) and the threshold in
\* hundredths
RatioBelow(total_darija, msa_hits, c) ==
  total_darija * 100 < c.darija_ratio_threshold * (total_darija + msa_hits)

\* The fallback rules with the rule on Arabizi digits tried before the rule
\* on MSA markers.
FallbackDigitsFirst(tokens, c, stats) ==
  IF stats.has_arabizi_digits THEN TRUE
  ELSE IF stats.msa_hits > 0 /\ TotalDarija(stats) = 0 THEN FALSE
  ELSE IF stats.has_arabic /\ stats.has_latin THEN TRUE
  ELSE IF stats.has_arabic /\ ~stats.has_latin
  THEN IF Len(tokens) > c.arabic_no_markers_max_tokens THEN FALSE ELSE TRUE
  ELSE IF stats.has_latin /\ ~stats.has_arabic
  THEN LatinOnlyBranch(tokens, c, stats.spam_hits)
  ELSE FALSE

\* preprocessing.py 639-667: the rules of _is_darija for tokens without
\* dialect evidence
FallbackVerdict(tokens, c, stats) ==
  IF stats.msa_hits > 0 /\ TotalDarija(stats) = 0 THEN FALSE
  ELSE IF stats.has_arabizi_digits THEN TRUE
  ELSE IF stats.has_arabic /\ stats.has_latin THEN TRUE
  ELSE IF stats.has_arabic /\ ~stats.has_latin
  THEN IF Len(tokens) > c.arabic_no_markers_max_tokens THEN FALSE ELSE TRUE
  ELSE IF stats.has_latin /\ ~stats.has_arabic
  THEN LatinOnlyBranch(tokens, c, stats.spam_hits)
  ELSE FALSE

\* The decision of _is_darija on the statistics of the tokens
\* (preprocessing.py 626-667).
DarijaVerdict(tokens, c, stats) ==
  IF TotalDarija(stats) > 0
  THEN IF stats.msa_hits > 0 /\ RatioBelow(TotalDarija(stats), stats.msa_hits, c)
       THEN FALSE
       ELSE TRUE
  ELSE FallbackVerdict(tokens, c, stats)

_is_darija(tokens, c) ==
  IF Len(tokens) = 0 THEN FALSE
  ELSE DarijaVerdict(tokens, c, _darija_stats(tokens))

\* A sentiment check that holds of no list of tokens.
NoShortSentiment(tokens) == FALSE

_has_short_sentiment(tokens) ==
  \E i \in 1..Len(tokens) :
    tokens[i] \in _SENTIMENT_LEXICON \/ Lower(tokens[i]) \in _SENTIMENT_LEXICON

\* _is_generic_phrase without the lookup of the whole text in
\* _GENERIC_PHRASES.
GenericByTokensOnly(cleaned, tokens) ==
  IF Len(tokens) = 0 THEN TRUE
  ELSE Len(tokens) <= 4 /\ \A i \in 1..Len(tokens) : tokens[i] \in _GENERIC_TOKENS

_is_generic_phrase(cleaned, tokens) ==
  IF cleaned \in _GENERIC_PHRASES THEN TRUE
  ELSE IF Len(tokens) = 0 THEN TRUE
  ELSE IF Len(tokens) <= 4
          /\ CountTrue([i \in 1..Len(tokens) |-> tokens[i] \in _GENERIC_TOKENS])
               = Len(tokens)
  THEN TRUE
  ELSE FALSE

\* A religious check that holds of no text.
NeverReligious(tokens, cleaned) == FALSE

\* preprocessing.py 697-702: more than half of the tokens that are no
\* stopwords are strict religious markers, or there is no such token
ReligiousShare(non_stop_tokens) ==
  IF Len(non_stop_tokens) = 0 THEN TRUE
  ELSE 2 * CountTrue([i \in 1..Len(non_stop_tokens) |->
                        non_stop_tokens[i] \in _RELIGIOUS_MARKERS_STRICT])
         > Len(non_stop_tokens)

_is_religious_msa(tokens, cleaned) ==
  IF cleaned \in _GENERIC_PHRASES THEN TRUE
  ELSE IF Len(tokens) = 0 THEN TRUE
  ELSE ReligiousShare(SelectSeq(tokens, LAMBDA t : t \notin _STOPWORDS))

_is_spam(tokens, c) ==
  IF ~c.drop_spam THEN FALSE
  ELSE IF Len(tokens) = 0 THEN FALSE
  ELSE 2 * CountTrue([i \in 1..Len(tokens) |-> Lower(tokens[i]) \in _SPAM_PATTERNS])
         > Len(tokens)

-----------------------------------------------------------------------------
(* The classifier (preprocessing.py 721-773) *)

\* A returned pair (None, reason).
Reject(why) == <<None, why>>

\* A returned pair (result, None).
Return(res) == <<res, NoneStr>>

\* preprocessing.py 755-762: the language hint
LangHint(stats) ==
  IF stats.has_arabic /\ stats.has_latin THEN "mixed"
  ELSE IF stats.has_arabizi_digits /\ ~stats.has_arabic THEN "arabizi"
  ELSE IF ~stats.has_arabic /\ stats.has_latin THEN "arabizi"
  ELSE "darija"

\* preprocessing.py 754-766: the accepted record
Accept(cleaned, full_tokens, tokens) ==
  Return([type |-> "dict", text_clean |-> cleaned, tokens |-> tokens,
          lang_hint |-> LangHint(_darija_stats(full_tokens))])

\* The gates on the tokens left by the removal of stopwords, without the
\* gate that rejects a comment made of stopwords only.
LengthGatesKeepingEmpty(cleaned, full_tokens, tokens, c) ==
  IF Len(tokens) < c.min_tokens
     /\ ~(c.keep_short_if_sentiment /\ _has_short_sentiment(tokens))
     /\ Len(tokens) > 0
  THEN Reject("too_short")
  ELSE Accept(cleaned, full_tokens, tokens)

\* preprocessing.py 747-753: the gates on the tokens left by the removal of
\* stopwords
LengthGates(cleaned, full_tokens, tokens, c) ==
  IF Len(tokens) = 0 THEN Reject("only_stopwords")
  ELSE IF Len(tokens) < c.min_tokens
          /\ ~(c.keep_short_if_sentiment /\ _has_short_sentiment(tokens))
  THEN Reject("too_short")
  ELSE Accept(cleaned, full_tokens, tokens)

\* The gates of DialectGates with the dialect determination made before the
\* spam gate.
DialectBeforeSpam(cleaned, full_tokens, c) ==
  IF ~_is_darija(full_tokens, c)
  THEN IF c.drop_religious_msa /\ _is_religious_msa(full_tokens, cleaned)
       THEN Reject("religious_msa")
       ELSE Reject("not_darija")
  ELSE IF _is_spam(full_tokens, c) THEN Reject("spam")
  ELSE IF c.drop_generic_phrases /\ _is_generic_phrase(cleaned, full_tokens)
  THEN Reject("generic_phrase")
  ELSE LengthGates(cleaned, full_tokens, _remove_stopwords(full_tokens), c)

\* preprocessing.py 737-746: spam, dialect determination, generic phrase,
\* removal of stopwords
DialectGates(cleaned, full_tokens, c) ==
  IF _is_spam(full_tokens, c) THEN Reject("spam")
  ELSE IF ~_is_darija(full_tokens, c)
  THEN IF c.drop_religious_msa /\ _is_religious_msa(full_tokens, cleaned)
       THEN Reject("religious_msa")
       ELSE Reject("not_darija")
  ELSE IF c.drop_generic_phrases /\ _is_generic_phrase(cleaned, full_tokens)
  THEN Reject("generic_phrase")
  ELSE LengthGates(cleaned, full_tokens, _remove_stopwords(full_tokens), c)

\* preprocessing.py 735-736: the gate on the tokens of the cleaned text
TokenGates(cleaned, full_tokens, c) ==
  IF Len(full_tokens) = 0 THEN Reject("empty_after_tokenize")
  ELSE DialectGates(cleaned, full_tokens, c)

\* preprocessing.py 732-734: the gate on the cleaned text
CleanGates(cleaned, c) ==
  IF Len(cleaned) = 0 \/ ~_has_letters(cleaned) THEN Reject("empty_after_clean")
  ELSE TokenGates(cleaned, _tokenize(cleaned), c)

\* The reason of the gate on blank texts.
EmptyReason == "empty"

\* preprocessing.py 724-725: the reason given to an argument that is no str
NotTextReason == "not_text"

\* preprocessing.py 726-731: the gates on the stripped text
\* (TextGates), and the pair (result, reason) returned for the argument t under configuration
\* c, when the emoji package is importable (lib) or not.
TextGates(stripped, c, lib) ==
  IF Len(stripped) = 0 THEN Reject("empty")
  ELSE IF c.drop_emoji_only /\ _is_emoji_only(stripped, lib)
  THEN Reject("emoji_only")
  ELSE CleanGates(_basic_clean(stripped, lib), c)

_preprocess_comment_internal(t, c, lib) ==
  IF ~IsStr(t) THEN Reject(NotTextReason)
  ELSE TextGates(Strip(t.s), c, lib)

\* preprocess_comment(text) with the default cfg=None
preprocess_comment(t, lib) == _preprocess_comment_internal(t, DefaultConfig, lib)[1]

-----------------------------------------------------------------------------
(* Inputs *)

\* Bounds of the model.
MaxWords  == 2    \* words of a free text
MaxRepeat == 19   \* tokens of a long text
MaxChars  == 3    \* characters of a text given to the normaliser
MaxRaw    == 2    \* records of the file at raw_path
MaxInsta  == 1    \* top-level comments of the file at instagram_path

W_allah == <<1575, 1604, 1604, 1607>>  \* الله: a Darija marker
W_subhan == <<1587, 1576, 1581, 1575, 1606>>  \* سبحان: a generic token
W_fi == <<1601, 1610>>  \* في: a stopword
W_lakin == <<1604, 1603, 1606>>  \* لكن: an MSA marker
W_jamil == <<1580, 1605, 1610, 1604>>  \* جميل: in the sentiment lexicon
W_qalam == <<1602, 1604, 1605>>  \* قلم: in no lexicon
W_rasul == <<1585, 1587, 1608, 1604>>  \* رسول: a strict religious marker

\* واش هاد الفيديو زوين بزاف 😍😍 http://x.co
ExampleDarija ==
  <<1608, 1575, 1588, 32, 1607, 1575, 1583, 32, 1575, 1604, 1601, 1610, 1583, 1610, 1608, 32, 1586, 1608, 1610, 1606, 32, 1576, 1586, 1575, 1601, 32, 128525, 128525, 32, 104, 116, 116, 112, 58, 47, 47, 120, 46, 99, 111>>

\* سبحان الله وبحمده
ExampleReligious == <<1587, 1576, 1581, 1575, 1606, 32, 1575, 1604, 1604, 1607, 32, 1608, 1576, 1581, 1605, 1583, 1607>>

\* three times U+1F602
ExampleEmoji == <<128514, 128514, 128514>>

\* machi hadchi li bghit, walakin khaib bzaf
ExampleArabizi == S("machi hadchi li bghit, walakin khaib bzaf")

\* The words free texts are made of.
Vocab ==
  {W_allah, W_subhan, W_fi, W_lakin, W_jamil, S("bzaf"), S("subscribe"), S("m3a")}

\* The words long texts are made of.
LongVocab ==
  {W_fi, W_rasul, W_qalam, W_qalam \o S("3"), W_allah, S("subscribe"), S("bzaf")}

\* " ".join(ws)
RECURSIVE Join(_)
Join(ws) ==
  IF Len(ws) = 0 THEN <<>>
  ELSE IF Len(ws) = 1 THEN ws[1]
  ELSE ws[1] \o <<32>> \o Join(Tail(ws))

\* The texts of one to MaxWords words of Vocab.
FreeTexts ==
  UNION {{Join(ws) : ws \in [1..n -> Vocab]} : n \in 1..MaxWords}

\* The texts made of a first word and k times a filler word, for k = 2 and
\* for the k that give as many tokens as arabic_no_markers_max_tokens and one
\* more.
LongTexts ==
  {Join(<<w0>> \o [i \in 1..k |-> w]) :
     w0 \in LongVocab, w \in LongVocab, k \in {2, MaxRepeat - 2, MaxRepeat - 1}}

\* The examples of the specification's section 8 and the blank texts.
ExampleTexts ==
  {ExampleDarija, ExampleArabizi, ExampleReligious, ExampleEmoji, <<>>, <<32, 32>>}

\* The values given to the classifier that are no str.
NonTextInputs == {None, PyInt(5)}

\* The arguments given to the classifier under every configuration.
ClassifierInputs ==
  {PyStr(t) : t \in FreeTexts \cup ExampleTexts} \cup NonTextInputs

\* The Arabic-Indic digit three, U+0663.
W_three == <<1635>>

\* The texts that hold an Arabic-Indic digit: alone, glued to a Latin
\* letter, and as a word after a Latin or an Arabic word.
ScriptTexts ==
  {W_three, S("a") \o W_three}
  \cup {Join(<<w, W_three>>) : w \in {S("bzaf"), S("m3a"), W_qalam}}

\* The arguments given to the classifier under the default configuration only.
LongInputs == {PyStr(t) : t \in LongTexts \cup ScriptTexts}

\* The configurations: the default one, and each one that differs from it in
\* one field.
Configs ==
  {DefaultConfig}
  \cup {[DefaultConfig EXCEPT ![f] = ~DefaultConfig[f]] :
          f \in {"allow_mixed_script", "allow_arabizi", "allow_arabic_no_markers",
                 "allow_latin_no_markers", "keep_short_if_sentiment",
                 "drop_emoji_only", "drop_religious_msa", "drop_generic_phrases",
                 "drop_spam"}}
  \cup {[DefaultConfig EXCEPT !.min_tokens = 2],
        [DefaultConfig EXCEPT !.darija_ratio_threshold = 50],
        [DefaultConfig EXCEPT !.darija_ratio_threshold = 75],
        [DefaultConfig EXCEPT !.min_darija_hits = 2],
        [DefaultConfig EXCEPT !.arabic_no_markers_max_tokens = 1],
        [DefaultConfig EXCEPT !.latin_no_markers_max_tokens = 1],
        [DefaultConfig EXCEPT !.min_tokens = 2, !.keep_short_if_sentiment = FALSE],
        [DefaultConfig EXCEPT !.allow_latin_no_markers = TRUE, !.drop_spam = FALSE]}

\* The characters of the texts given to the normaliser: a, A, space, '.',
\* '3', alef (U+0627), tatweel (U+0640) and U+1F602.
CleanAlphabet == {97, 65, 32, 46, 51, 1575, 1600, 128514}

\* The texts of at most MaxChars characters of CleanAlphabet.
CleanInputs == UNION {[1..n -> CleanAlphabet] : n \in 0..MaxChars}

-----------------------------------------------------------------------------
(* The classifier called on one comment *)

\* The variables of the other components, at rest.
NormaliserIdle == once = <<>> /\ twice = <<>>

DialectIdle == the_cleaned = <<>> /\ the_tokens = <<>> /\ is_darija_text = FALSE

ScraperIdle == seen_ids = {} /\ all_comments = <<>> /\ videos = 0

AggregatorIdle ==
  /\ raw_file = [state |-> "missing"]
  /\ insta_file = [state |-> "missing"]
  /\ all_items = <<>>
  /\ todo = <<>>
  /\ processed = <<>>
  /\ dropped = <<>>
  /\ counters = <<>>
  /\ saved = None
  /\ returned = None

InitClassifier ==
  /\ emoji \in BOOLEAN
  /\ \/ text \in ClassifierInputs /\ cfg \in Configs \cup {None}
     \/ text \in LongInputs /\ cfg = DefaultConfig
  /\ pc = "call"
  /\ result = None
  /\ reason = NoneStr
  /\ NormaliserIdle
  /\ DialectIdle
  /\ ScraperIdle
  /\ AggregatorIdle

\* result, reason = _preprocess_comment_internal(text, cfg)
CallInternal ==
  /\ pc = "call"
  /\ cfg # None
  /\ LET out == _preprocess_comment_internal(text, cfg, emoji)
     IN  result' = out[1] /\ reason' = out[2]
  /\ pc' = "returned"
  /\ UNCHANGED <<seen_ids, all_comments, videos, the_cleaned, the_tokens, is_darija_text, emoji, cfg, text, once, twice, raw_file, insta_file, all_items,
                 todo, processed, dropped, counters, saved, returned>>

\* result = preprocess_comment(text)
CallPublic ==
  /\ pc = "call"
  /\ cfg = None
  /\ result' = preprocess_comment(text, emoji)
  /\ pc' = "returned_public"
  /\ UNCHANGED <<seen_ids, all_comments, videos, the_cleaned, the_tokens, is_darija_text, emoji, cfg, text, reason, once, twice, raw_file, insta_file,
                 all_items, todo, processed, dropped, counters, saved, returned>>

NextClassifier == CallInternal \/ CallPublic

SpecClassifier == InitClassifier /\ [][NextClassifier]_vars

-----------------------------------------------------------------------------
(* Properties of the classifier (SpecClassifier) *)

\* The tokens of the text t: _tokenize(_basic_clean(t.strip())).
FullTokens(t, lib) == _tokenize(_basic_clean(Strip(t), lib))

\* C1: for every argument (str or not) and every configuration,
\* _preprocess_comment_internal returns either a result and no reason or no
\* result and a reason, never both and never neither, and a returned result
\* carries a list of tokens that is not empty.
C1_ExactlyOneOutcome ==
  pc = "returned" =>
    /\ (result = None) # (reason = NoneStr)
    /\ result # None => result.type = "dict" /\ Len(result.tokens) > 0

\* C1 witness: a comment is accepted after stopwords were removed from its
\* tokens.
C1_AcceptedWithoutStopwords ==
  /\ pc = "returned"
  /\ result # None
  /\ reason = NoneStr
  /\ Len(result.tokens) < Len(FullTokens(text.s, emoji))

\* The drop reasons the specification lists.
ClosedReasons ==
  {"empty", "emoji_only", "empty_after_clean", "empty_after_tokenize", "spam",
   "religious_msa", "not_darija", "generic_phrase", "only_stopwords", "too_short"}

GateTable(stripped, cleaned, full_tokens, tokens, c, lib) ==
  << <<"empty", Len(stripped) = 0>>,
     <<"emoji_only", c.drop_emoji_only /\ _is_emoji_only(stripped, lib)>>,
     <<"empty_after_clean", Len(cleaned) = 0 \/ ~_has_letters(cleaned)>>,
     <<"empty_after_tokenize", Len(full_tokens) = 0>>,
     <<"spam", _is_spam(full_tokens, c)>>,
     <<"religious_msa",
       /\ ~_is_darija(full_tokens, c)
       /\ c.drop_religious_msa
       /\ _is_religious_msa(full_tokens, cleaned)>>,
     <<"not_darija", ~_is_darija(full_tokens, c)>>,
     <<"generic_phrase",
       c.drop_generic_phrases /\ _is_generic_phrase(cleaned, full_tokens)>>,
     <<"only_stopwords", Len(tokens) = 0>>,
     <<"too_short",
       /\ Len(tokens) < c.min_tokens
       /\ ~(c.keep_short_if_sentiment /\ _has_short_sentiment(tokens))>> >>

GatesOnTokens(stripped, cleaned, full_tokens, c, lib) ==
  GateTable(stripped, cleaned, full_tokens, _remove_stopwords(full_tokens), c, lib)

GatesOnClean(stripped, cleaned, c, lib) ==
  GatesOnTokens(stripped, cleaned, _tokenize(cleaned), c, lib)

GatesOnStripped(stripped, c, lib) ==
  GatesOnClean(stripped, _basic_clean(stripped, lib), c, lib)

\* The reason of the first gate of the table whose condition holds, NoneStr
\* if none holds.
FirstOf(hits) == IF Len(hits) = 0 THEN NoneStr ELSE hits[1][1]
FirstReason(gates) == FirstOf(SelectSeq(gates, LAMBDA g : g[2]))

\* C3: the reason reported for a str is that of the first gate, in the order
\* empty, emoji_only, empty_after_clean, empty_after_tokenize, spam, dialect
\* determination (religious_msa, not_darija), generic_phrase, only_stopwords,
\* too_short, whose condition holds, and the comment is accepted when none
\* holds; so a comment more than half of whose tokens are spam is rejected
\* spam even with Darija markers, and generic_phrase is reported only for
\* comments whose dialect determination is true.
C3_FirstGateWins ==
  pc = "returned" /\ IsStr(text) =>
    /\ reason = FirstReason(GatesOnStripped(Strip(text.s), cfg, emoji))
    /\ reason = "generic_phrase" => _is_darija(FullTokens(text.s, emoji), cfg)

\* C3 witness: a comment that holds a Darija marker, and whose dialect
\* determination is true, has been rejected as spam.
C3_SpamDespiteMarkers ==
  /\ pc = "returned"
  /\ IsStr(text)
  /\ reason = "spam"
  /\ _is_darija(FullTokens(text.s, emoji), cfg)
  /\ \E i \in 1..Len(FullTokens(text.s, emoji)) :
       FullTokens(text.s, emoji)[i] \in _DARIJA_MARKERS

\* The tokens and the cleaned text of the comment "subhan allah wa
\* bihamdih" of the specification's examples.
ReligiousCleaned(lib) == _basic_clean(Strip(ExampleReligious), lib)
ReligiousTokens(lib) == _tokenize(ReligiousCleaned(lib))

\* The comment of C9 has been classified under the default configuration.
C9_Case ==
  pc = "returned" /\ cfg = DefaultConfig /\ text = PyStr(ExampleReligious)

\* C9 as stated: under the default configuration the dialect determination
\* of that comment is false, no token of it being dialect evidence, and the
\* comment is rejected with the reason religious_msa.
C9_RejectedReligious ==
  C9_Case =>
    /\ ~_is_darija(ReligiousTokens(emoji), cfg)
    /\ TotalDarija(_darija_stats(ReligiousTokens(emoji))) = 0
    /\ reason = "religious_msa"

\* C9 amended: under the default configuration the dialect determination of
\* that comment is true, its token "allah" being a Darija marker; the
\* generic_phrase gate is reached, the cleaned text is one of the generic
\* phrases, and the comment is rejected with the reason generic_phrase.
C9_RejectedGeneric ==
  C9_Case =>
    /\ W_allah \in _DARIJA_MARKERS
    /\ \E i \in 1..Len(ReligiousTokens(emoji)) : ReligiousTokens(emoji)[i] = W_allah
    /\ _is_darija(ReligiousTokens(emoji), cfg)
    /\ ReligiousCleaned(emoji) \in _GENERIC_PHRASES
    /\ result = None
    /\ reason = "generic_phrase"

\* C9 witness: that comment has been rejected under the default
\* configuration.
C9_ExampleRejected == C9_Case /\ result = None /\ reason # NoneStr

\* The statistics of an Arabic-script-only comment without dialect evidence
\* and without MSA marker.
MarkerlessArabic(stats) ==
  /\ stats.has_arabic
  /\ ~stats.has_latin
  /\ TotalDarija(stats) = 0
  /\ stats.msa_hits = 0

\* A comment of more tokens than arabic_no_markers_max_tokens with such
\* statistics has been classified under the default configuration.
C10_Case ==
  /\ pc = "returned"
  /\ cfg = DefaultConfig
  /\ IsStr(text)
  /\ Len(FullTokens(text.s, emoji)) > cfg.arabic_no_markers_max_tokens
  /\ MarkerlessArabic(_darija_stats(FullTokens(text.s, emoji)))

\* C10 as stated: every such comment is rejected with the reason not_darija,
\* whatever its tokens are.
C10_RejectedNotDarija == C10_Case => result = None /\ reason = "not_darija"

\* The tokens of the text are all stopwords, or more than half of those
\* that are no stopwords are strict religious markers.
MostlyReligious(tokens) ==
  \/ \A i \in 1..Len(tokens) : tokens[i] \in _STOPWORDS
  \/ 2 * Cardinality({i \in 1..Len(tokens) : tokens[i] \in _RELIGIOUS_MARKERS_STRICT
                                             /\ tokens[i] \notin _STOPWORDS})
       > Cardinality({i \in 1..Len(tokens) : tokens[i] \notin _STOPWORDS})

\* C10 amended: such a comment, when none of its tokens holds one of the
\* digits 2, 3, 5, 7, 9, is rejected: with the reason religious_msa when its
\* tokens are all stopwords or more than half of its tokens that are no
\* stopwords are strict religious markers, with the reason not_darija
\* otherwise.  When a token holds such a digit the dialect determination is
\* true and the length cap does not apply.
C10_RejectedReligiousOrNotDarija ==
  C10_Case =>
    IF _darija_stats(FullTokens(text.s, emoji)).has_arabizi_digits
    THEN _is_darija(FullTokens(text.s, emoji), cfg) /\ reason # "not_darija"
    ELSE /\ result = None
         /\ reason = IF MostlyReligious(FullTokens(text.s, emoji))
                     THEN "religious_msa" ELSE "not_darija"

\* C10 witness: such a comment, whose tokens are all strict religious
\* markers, has been rejected with the reason religious_msa.
C10_LongReligiousRejected ==
  /\ C10_Case
  /\ \A i \in 1..Len(FullTokens(text.s, emoji)) :
       FullTokens(text.s, emoji)[i] \in _RELIGIOUS_MARKERS_STRICT
  /\ reason = "religious_msa"

\* A letter of the Arabic script: the letters of the blocks U+0600-06FF,
\* U+0750-077F and U+08A0-08FF, without their digits, signs and marks.
IsArabicLetter(ch) ==
  \/ ch \in 1568..1610 \/ ch \in 1646..1647 \/ ch \in 1649..1747 \/ ch = 1749
  \/ ch \in 1765..1766 \/ ch \in 1774..1775 \/ ch \in 1786..1788 \/ ch = 1791
  \/ ch \in 1872..1919 \/ ch \in 2208..2249

\* Some token of the list holds a letter of the Arabic script, a Latin
\* letter.
AnyArabicLetter(tokens) ==
  \E i \in 1..Len(tokens) : \E k \in 1..Len(tokens[i]) : IsArabicLetter(tokens[i][k])
AnyLatinLetter(tokens) == \E i \in 1..Len(tokens) : HasLatin(tokens[i])

\* The language hint of a list of tokens, by the letters it holds.
HintByLetters(tokens) ==
  IF AnyArabicLetter(tokens) /\ AnyLatinLetter(tokens) THEN "mixed"
  ELSE IF AnyLatinLetter(tokens) THEN "arabizi"
  ELSE "darija"

\* C11: the language hint of an accepted comment is mixed exactly when its
\* tokens before the removal of stopwords hold both a letter of the Arabic
\* script and a Latin letter, arabizi exactly when they hold Latin letters
\* and no letter of the Arabic script, and darija otherwise; an Arabic-Indic
\* digit, or another character of the Arabic block that is no letter, counts
\* as no Arabic letter.
C11_HintByLetters ==
  pc = "returned" /\ result # None =>
    result.lang_hint = HintByLetters(FullTokens(text.s, emoji))

\* C11: the comment "bzaf" followed by the Arabic-Indic digit three, which
\* holds Latin letters and no letter of the Arabic script, has been accepted
\* with the language hint mixed.
C11_DigitCountedAsArabic ==
  /\ pc = "returned"
  /\ text = PyStr(Join(<<S("bzaf"), W_three>>))
  /\ result # None
  /\ result.lang_hint = "mixed"
  /\ ~AnyArabicLetter(FullTokens(text.s, emoji))

\* The reasons of the gates that come before the tokeniser.
ReasonsBeforeTokenize == {"not_text", "empty", "emoji_only", "empty_after_clean"}

\* C19: the drop reason empty_after_tokenize is unreachable: whenever the
\* cleaned text passes the check on the cleaned text, being not empty and
\* holding a letter, the tokeniser returns at least one token, under every
\* configuration.
C19_NeverEmptyAfterTokenize ==
  pc = "returned" =>
    /\ reason # "empty_after_tokenize"
    /\ IsStr(text) /\ reason \notin ReasonsBeforeTokenize =>
         /\ _has_letters(_basic_clean(Strip(text.s), emoji))
         /\ Len(FullTokens(text.s, emoji)) > 0

\* C19 witness: a comment whose cleaned text is the one word "m3a", of
\* letters and a digit, has passed the check on the cleaned text and has
\* been classified.
C19_DigitWordTokenized ==
  /\ pc = "returned"
  /\ IsStr(text)
  /\ reason \notin ReasonsBeforeTokenize
  /\ _basic_clean(Strip(text.s), emoji) = S("m3a")
  /\ FullTokens(text.s, emoji) = <<S("m3a")>>

\* The reasons of the gates that come before the gates on length.
EarlierReasons ==
  {"not_text", "empty", "emoji_only", "empty_after_clean", "empty_after_tokenize",
   "spam", "religious_msa", "not_darija", "generic_phrase"}

\* The outcome (res, why) the gates on length give under configuration c to
\* the tokens the removal of stopwords leaves.
LengthRule(left, c, res, why) ==
  IF Len(left) = 0 THEN res = None /\ why = "only_stopwords"
  ELSE IF Len(left) >= c.min_tokens THEN res # None /\ why = NoneStr
  ELSE IF c.keep_short_if_sentiment
          /\ \E i \in 1..Len(left) : left[i] \in _SENTIMENT_LEXICON
  THEN res # None /\ why = NoneStr
  ELSE res = None /\ why = "too_short"

\* C12: when the removal of stopwords leaves tokens, a comment of fewer
\* tokens than min_tokens is accepted if and only if keep_short_if_sentiment
\* is set and one of the tokens left is in the sentiment lexicon, and is
\* rejected too_short otherwise; a comment of min_tokens tokens or more is
\* never rejected too_short.
C12_ShortKeptOnSentiment ==
  pc = "returned" /\ IsStr(text) /\ reason \notin EarlierReasons =>
    /\ LengthRule(_remove_stopwords(FullTokens(text.s, emoji)), cfg, result, reason)
    /\ result # None => result.tokens = _remove_stopwords(FullTokens(text.s, emoji))

\* C12 witness: under a configuration of min_tokens = 2, a comment of which
\* one token is left, a word of the sentiment lexicon, has been accepted.
C12_ShortSentimentAccepted ==
  /\ pc = "returned"
  /\ IsStr(text)
  /\ cfg.min_tokens = 2
  /\ result # None
  /\ Len(result.tokens) = 1
  /\ result.tokens[1] \in _SENTIMENT_LEXICON

-----------------------------------------------------------------------------
(* The normaliser and the tokeniser called on one text *)

InitNormaliser ==
  /\ emoji \in BOOLEAN
  /\ text \in {PyStr(t) : t \in CleanInputs}
  /\ pc = "clean"
  /\ once = <<>>
  /\ twice = <<>>
  /\ cfg = None
  /\ result = None
  /\ reason = NoneStr
  /\ DialectIdle
  /\ ScraperIdle
  /\ AggregatorIdle

\* once = _basic_clean(text)
Clean ==
  /\ pc = "clean"
  /\ once' = _basic_clean(text.s, emoji)
  /\ pc' = "cleaned"
  /\ UNCHANGED <<seen_ids, all_comments, videos, the_cleaned, the_tokens, is_darija_text, emoji, cfg, text, result, reason, twice, raw_file, insta_file,
                 all_items, todo, processed, dropped, counters, saved, returned>>

\* twice = _basic_clean(once)
CleanAgain ==
  /\ pc = "cleaned"
  /\ twice' = _basic_clean(once, emoji)
  /\ pc' = "recleaned"
  /\ UNCHANGED <<seen_ids, all_comments, videos, the_cleaned, the_tokens, is_darija_text, emoji, cfg, text, result, reason, once, raw_file, insta_file,
                 all_items, todo, processed, dropped, counters, saved, returned>>

NextNormaliser == Clean \/ CleanAgain

SpecNormaliser == InitNormaliser /\ [][NextNormaliser]_vars

\* C4: the normaliser is idempotent: cleaning a cleaned text changes
\* nothing, also for a text that holds upper- and lower-case copies of one
\* Latin letter in one run.
C4_Idempotent == pc = "recleaned" => twice = once

\* C4: the text "Aaa" has been cleaned once, giving "aaa", and again, giving
\* "aa".
C4_MixedCaseRun ==
  /\ pc = "recleaned"
  /\ text = PyStr(S("Aaa"))
  /\ once = S("aaa")
  /\ twice = S("aa")

-----------------------------------------------------------------------------
(* The tokeniser and the dialect determination called on one comment *)

MaxTokens == 2   \* words of a text given to the dialect determination

\* The words of these texts: a Darija marker, an MSA marker, an Arabic word
\* of no lexicon, a Latin word of no lexicon, a spam word, a word with an
\* Arabizi digit, a word with a transliterated verb prefix, a word with a
\* transliterated negation, a number in ASCII digits and one in Arabic-Indic
\* digits.
DialectVocab ==
  {S("bzaf"), W_lakin, W_qalam, S("hello"), S("subscribe"), S("x3"),
   S("kanakol"), S("machafch"), S("3"), W_three}

DialectTexts ==
  UNION {{Join(ws) : ws \in [1..n -> DialectVocab]} : n \in 1..MaxTokens}

\* The configurations that differ from the default one in the fields the
\* dialect determination reads or is said to read.
DialectConfigs ==
  {DefaultConfig,
   [DefaultConfig EXCEPT !.allow_mixed_script = FALSE],
   [DefaultConfig EXCEPT !.allow_arabizi = FALSE],
   [DefaultConfig EXCEPT !.allow_arabic_no_markers = FALSE],
   [DefaultConfig EXCEPT !.allow_latin_no_markers = TRUE],
   [DefaultConfig EXCEPT !.drop_spam = FALSE],
   [DefaultConfig EXCEPT !.darija_ratio_threshold = 50],
   [DefaultConfig EXCEPT !.darija_ratio_threshold = 75],
   [DefaultConfig EXCEPT !.arabic_no_markers_max_tokens = 1],
   [DefaultConfig EXCEPT !.allow_latin_no_markers = TRUE,
                         !.latin_no_markers_max_tokens = 1],
   [DefaultConfig EXCEPT !.allow_latin_no_markers = TRUE, !.drop_spam = FALSE]}

InitDialect ==
  /\ emoji \in BOOLEAN
  /\ text \in {PyStr(t) : t \in DialectTexts}
  /\ cfg \in DialectConfigs
  /\ pc = "tokenize"
  /\ result = None
  /\ reason = NoneStr
  /\ NormaliserIdle
  /\ DialectIdle
  /\ ScraperIdle
  /\ AggregatorIdle

\* preprocessing.py 726-734: the text passes the gates on the stripped and
\* on the cleaned text
PassesTextGates(stripped, c, lib) ==
  /\ Len(stripped) > 0
  /\ ~(c.drop_emoji_only /\ _is_emoji_only(stripped, lib))
  /\ Len(_basic_clean(stripped, lib)) > 0
  /\ _has_letters(_basic_clean(stripped, lib))

\* preprocessing.py 726-734: a text that passes the gates on the stripped
\* and on the cleaned text is tokenised, cleaned = _basic_clean(text) and
\* full_tokens = _tokenize(cleaned); another text is rejected
Tokenise ==
  /\ pc = "tokenize"
  /\ IF PassesTextGates(Strip(text.s), cfg, emoji)
     THEN /\ the_cleaned' = _basic_clean(Strip(text.s), emoji)
          /\ the_tokens' = _tokenize(the_cleaned')
          /\ pc' = "tokenized"
     ELSE /\ pc' = "rejected"
          /\ UNCHANGED <<the_cleaned, the_tokens>>
  /\ UNCHANGED <<seen_ids, all_comments, videos, is_darija_text, emoji, cfg, text, result, reason, once, twice,
                 raw_file, insta_file, all_items, todo, processed, dropped,
                 counters, saved, returned>>

\* preprocessing.py 735-739: is_darija_text = _is_darija(full_tokens, cfg),
\* for tokens that passed the gates empty_after_tokenize and spam
Determine ==
  /\ pc = "tokenized"
  /\ Len(the_tokens) > 0
  /\ ~_is_spam(the_tokens, cfg)
  /\ is_darija_text' = _is_darija(the_tokens, cfg)
  /\ pc' = "determined"
  /\ UNCHANGED <<seen_ids, all_comments, videos, the_cleaned, the_tokens, emoji, cfg, text, result, reason, once,
                 twice, raw_file, insta_file, all_items, todo, processed,
                 dropped, counters, saved, returned>>

NextDialect == Tokenise \/ Determine

SpecDialect == InitDialect /\ [][NextDialect]_vars

-----------------------------------------------------------------------------
(* Properties of the tokeniser and of the dialect determination            *)
(* (SpecDialect)                                                           *)

\* The token holds a letter of the Arabic script.
HasArabicLetter(tok) == \E k \in 1..Len(tok) : IsArabicLetter(tok[k])

\* The token is made of decimal digits only.
AllDigits(tok) == \A k \in 1..Len(tok) : IsDigit(tok[k])

\* C13: the tokeniser keeps a whitespace-separated token if and only if it
\* holds a letter of the Arabic script or a Latin letter, in the order of
\* the text and with its repetitions: a token made of digits only, ASCII or
\* Arabic-Indic, is discarded, and a token that mixes digits with a letter
\* is kept.
C13_KeepsLetterTokens ==
  pc = "tokenized" =>
    /\ the_tokens = SelectSeq(Split(the_cleaned),
                              LAMBDA tok : HasArabicLetter(tok) \/ HasLatin(tok))
    /\ \A i \in 1..Len(the_tokens) : ~AllDigits(the_tokens[i])

\* C13: the text "bzaf" followed by the Arabic-Indic digit three has been
\* tokenised, and the token made of that digit is kept.
C13_DigitTokenKept ==
  /\ pc = "tokenized"
  /\ text = PyStr(Join(<<S("bzaf"), W_three>>))
  /\ the_tokens = <<S("bzaf"), W_three>>

\* The verdict on tokens of these statistics, by the ratio of the dialect
\* evidence to the whole evidence.
RatioRule(stats, c) ==
  \/ stats.msa_hits = 0
  \/ 100 * TotalDarija(stats)
       >= c.darija_ratio_threshold * (TotalDarija(stats) + stats.msa_hits)

\* C14: when total_darija = darija_hits + darija_morphology > 0 and
\* msa_hits > 0, the comment is Darija if and only if
\* total_darija / (total_darija + msa_hits) >= darija_ratio_threshold, the
\* ratio equal to the threshold included; when total_darija > 0 and
\* msa_hits = 0 it is Darija, whatever its script, its number of tokens and
\* its spam hits.
C14_RatioDecides ==
  pc = "determined" /\ TotalDarija(_darija_stats(the_tokens)) > 0 =>
    is_darija_text = RatioRule(_darija_stats(the_tokens), cfg)

\* C14 witness: a comment of one Darija marker and one MSA marker has been
\* determined Darija under the threshold 0.5, its ratio.
C14_RatioAtThreshold ==
  /\ pc = "determined"
  /\ cfg.darija_ratio_threshold = 50
  /\ TotalDarija(_darija_stats(the_tokens)) = 1
  /\ _darija_stats(the_tokens).msa_hits = 1
  /\ is_darija_text

\* The statistics are those of tokens the rules on MSA markers, on Arabizi
\* digits, on mixed scripts or on Arabic script decide.
DecidedBeforeLatin(stats) ==
  stats.msa_hits > 0 \/ stats.has_arabizi_digits \/ stats.has_arabic

\* The verdict of those rules, each one tried when the ones before it do
\* not apply, on n tokens of these statistics.
FallbackPrecedence(n, c, stats) ==
  IF stats.msa_hits > 0 THEN FALSE
  ELSE IF stats.has_arabizi_digits THEN TRUE
  ELSE IF stats.has_arabic /\ stats.has_latin THEN TRUE
  ELSE n <= c.arabic_no_markers_max_tokens

\* C15: with total_darija = 0 the fallback rules apply in this precedence:
\* msa_hits > 0 gives not Darija; else a token with one of the digits 2, 3,
\* 5, 7, 9 gives Darija; else tokens with both Arabic-script and Latin
\* letters give Darija; else Arabic script only gives Darija exactly when
\* the number of tokens is at most arabic_no_markers_max_tokens; a later
\* rule never overrides an earlier one.
C15_FallbackPrecedence ==
  /\ pc = "determined"
  /\ TotalDarija(_darija_stats(the_tokens)) = 0
  /\ DecidedBeforeLatin(_darija_stats(the_tokens))
  => is_darija_text = FallbackPrecedence(Len(the_tokens), cfg, _darija_stats(the_tokens))

\* C15 witness: a comment without dialect evidence that holds an MSA marker
\* and a token with an Arabizi digit has been determined not Darija.
C15_MsaBeforeDigits ==
  /\ pc = "determined"
  /\ TotalDarija(_darija_stats(the_tokens)) = 0
  /\ _darija_stats(the_tokens).msa_hits > 0
  /\ _darija_stats(the_tokens).has_arabizi_digits
  /\ ~is_darija_text

\* The statistics of tokens that reach the Latin fallback: Latin script
\* only, no dialect evidence, no MSA marker, no Arabizi digit.
LatinFallback(stats) ==
  /\ TotalDarija(stats) = 0
  /\ stats.msa_hits = 0
  /\ ~stats.has_arabizi_digits
  /\ stats.has_latin
  /\ ~stats.has_arabic

\* More than 0.3 of the n tokens are spam tokens.
SpamRatioHigh(n, stats) == 10 * stats.spam_hits > 3 * n

\* Tokens of these statistics have been determined, in the Latin fallback,
\* with a spam ratio above 0.3.
C16_Case ==
  /\ pc = "determined"
  /\ LatinFallback(_darija_stats(the_tokens))
  /\ SpamRatioHigh(Len(the_tokens), _darija_stats(the_tokens))

\* C16 as stated: in the Latin fallback a spam ratio above 0.3 makes the
\* comment not Darija under every configuration, drop_spam = false and
\* allow_latin_no_markers = true with few tokens included.
C16_SpamRatioRejects == C16_Case => ~is_darija_text

\* C16 amended: in the Latin fallback a spam ratio above 0.3 makes the
\* comment not Darija under every configuration of drop_spam = true; under
\* drop_spam = false the spam ratio is not looked at, and the comment is
\* Darija exactly when allow_latin_no_markers is set and the number of
\* tokens is at most latin_no_markers_max_tokens.
C16_SpamRatioRejectsWhenDropping ==
  C16_Case =>
    is_darija_text = (/\ ~cfg.drop_spam
                      /\ cfg.allow_latin_no_markers
                      /\ Len(the_tokens) <= cfg.latin_no_markers_max_tokens)

\* C16 witness: under drop_spam = true and allow_latin_no_markers = true, a
\* Latin comment of few tokens with a spam ratio above 0.3 has been
\* determined not Darija.
C16_SpamRejectedDespiteAllow ==
  /\ C16_Case
  /\ cfg.drop_spam
  /\ cfg.allow_latin_no_markers
  /\ Len(the_tokens) <= cfg.latin_no_markers_max_tokens
  /\ ~is_darija_text

\* The statistics of tokens without dialect evidence and without MSA
\* marker.
NoEvidence(stats) == TotalDarija(stats) = 0 /\ stats.msa_hits = 0

\* Under configuration c, a flag set to false leaves tokens of these
\* statistics no rule to be Darija by: the script-mixing rule for tokens of
\* both scripts without Arabizi digit, the marker-less Arabic rule for
\* tokens of Arabic script only without Arabizi digit, the Arabizi-digit
\* rule for Latin tokens with such a digit that the Latin rule does not
\* accept.
RuleSwitchedOff(c, stats) ==
  \/ /\ ~c.allow_mixed_script
     /\ stats.has_arabic /\ stats.has_latin /\ ~stats.has_arabizi_digits
  \/ /\ ~c.allow_arabic_no_markers
     /\ stats.has_arabic /\ ~stats.has_latin /\ ~stats.has_arabizi_digits
  \/ /\ ~c.allow_arabizi
     /\ stats.has_arabizi_digits /\ ~stats.has_arabic
     /\ ~c.allow_latin_no_markers

\* C17: each of the flags allow_mixed_script, allow_arabizi and
\* allow_arabic_no_markers enables its fallback rule: with the flag set to
\* false, a comment without dialect and MSA evidence is not determined
\* Darija through the script-mixing rule, the Arabizi-digit rule, the
\* marker-less Arabic rule.
C17_FlagsSwitchRules ==
  /\ pc = "determined"
  /\ NoEvidence(_darija_stats(the_tokens))
  /\ RuleSwitchedOff(cfg, _darija_stats(the_tokens))
  => ~is_darija_text

\* C17: under allow_arabic_no_markers = false, the comment of the one
\* Arabic word "qalam", which is in no lexicon, has been determined Darija.
C17_ArabicRuleNotSwitchedOff ==
  /\ pc = "determined"
  /\ ~cfg.allow_arabic_no_markers
  /\ the_tokens = <<W_qalam>>
  /\ NoEvidence(_darija_stats(the_tokens))
  /\ is_darija_text

\* One of the checks of the Latin-only branch succeeds on a token: the
\* lookup among the Darija markers, the transliterated negation, the
\* transliterated verb prefix.
LatinChecksHit(tokens) ==
  \E i \in 1..Len(tokens) :
    \/ Lower(tokens[i]) \in _DARIJA_MARKERS
    \/ LatinNegationMatch(Lower(tokens[i]))
    \/ LatinVerbPrefixMatch(Lower(tokens[i]))

\* C20: in the Latin-only branch of _is_darija, reached only with
\* total_darija = 0 and msa_hits = 0, the lookup among the markers and the
\* checks of the transliterated negation and verb prefix never succeed, a
\* token they hold of being counted in darija_hits or darija_morphology; so
\* the verdict of the branch is: not (drop_spam and spam ratio > 0.3) and
\* allow_latin_no_markers and number of tokens <= latin_no_markers_max_tokens.
C20_LatinChecksDead ==
  /\ (pc = "determined" /\ LatinChecksHit(the_tokens)
        => TotalDarija(_darija_stats(the_tokens)) > 0)
  /\ (pc = "determined" /\ LatinFallback(_darija_stats(the_tokens))
        => is_darija_text =
             (/\ ~(cfg.drop_spam
                   /\ SpamRatioHigh(Len(the_tokens), _darija_stats(the_tokens)))
              /\ cfg.allow_latin_no_markers
              /\ Len(the_tokens) <= cfg.latin_no_markers_max_tokens))

\* C20 witness: a Latin comment of two tokens without dialect evidence has
\* been determined Darija in the Latin-only branch.
C20_LatinBranchTaken ==
  /\ pc = "determined"
  /\ LatinFallback(_darija_stats(the_tokens))
  /\ Len(the_tokens) = 2
  /\ is_darija_text

-----------------------------------------------------------------------------
(* The aggregator run_preprocessing (preprocessing.py 780-965) *)

\* The records the file at raw_path is made of.  comment_id and text are
\* what item.get gives; source is NoneStr when the record has no such key.
RawPool ==
  {[comment_id |-> PyStr("c1"),   text |-> PyStr(S("bzaf")),      source |-> NoneStr],
   [comment_id |-> PyStr("c2"),   text |-> PyStr(S("Bzaf!")),     source |-> NoneStr],
   [comment_id |-> PyStr("c1"),   text |-> PyStr(S("subscribe")), source |-> NoneStr],
   [comment_id |-> PyStr("ig_1"), text |-> PyStr(S("zwin")),      source |-> NoneStr],
   [comment_id |-> None,          text |-> PyStr(S("bzaf")),      source |-> NoneStr],
   [comment_id |-> PyStr("c3"),   text |-> PyInt(5),              source |-> "instagram"]}

\* The replies of an Instagram comment.
ReplyPool == {<<>>, <<[id |-> PyStr("1"), text |-> PyStr(S("bzaf"))]>>}

\* The comments the file at instagram_path is made of.
InstaPool ==
  {[id |-> PyStr("1"),    text |-> PyStr(S("bzaf")),  replies |-> <<>>],
   [id |-> PyStr("ig_1"), text |-> PyStr(S("Bzaf!")), replies |-> <<>>],
   [id |-> PyStr("2"),    text |-> PyStr(S("a")),
    replies |-> <<[id |-> PyStr("3"), text |-> PyStr(S("zwin"))]>>],
   [id |-> PyStr("2"),    text |-> PyStr(S("zwin")),
    replies |-> <<[id |-> PyStr("1"), text |-> PyStr(S("bzaf"))]>>],
   [id |-> PyStr("4"),    text |-> PyInt(5),          replies |-> <<>>]}

\* A file: absent, present but not readable, present with a content that is
\* no JSON, or present with the JSON of a list of records.
Files(pool, max) ==
  {[state |-> "missing"], [state |-> "unreadable"], [state |-> "malformed"]}
  \cup UNION {{[state |-> "ok", items |-> its] : its \in [1..n -> pool]} : n \in 0..max}

\* os.path.exists(path)
Exists(file) == file.state # "missing"

\* A load that raises on no file.
NeverRaises(file) == FALSE

\* _load_json(path) raises (preprocessing.py 780-782): open() fails on a file
\* that cannot be read and json.load on a content that is no JSON.
LoadRaises(file) == file.state \in {"unreadable", "malformed"}

\* The list _load_json(path) returns when it does not raise.
LoadedItems(file) == IF file.state = "ok" THEN file.items ELSE <<>>

\* not text or len(text.strip()) < 2 (preprocessing.py 802, 830): raises on
\* a text that is true and no str
TextRaises(v) == Truthy(v) /\ ~IsStr(v)
TextSkipped(v) == ~Truthy(v) \/ Len(Strip(v.s)) < 2

\* preprocessing.py 805-806
InstaCommentId(item_id) ==
  IF Len(item_id.s) >= 3 /\ SubSeq(item_id.s, 1, 3) = "ig_" THEN item_id
  ELSE PyStr("ig_" \o item_id.s)

\* preprocessing.py 828-842: the records made of the replies of one comment
RECURSIVE ConvertReplies(_)
ConvertReplies(replies) ==
  IF Len(replies) = 0 THEN <<>>
  ELSE (IF TextSkipped(Head(replies).text) THEN <<>>
        ELSE <<[comment_id |-> PyStr("ig_" \o Head(replies).id.s),
                text |-> Head(replies).text, source |-> "instagram"]>>)
       \o ConvertReplies(Tail(replies))

\* preprocessing.py 800-842: the records made of the comments
RECURSIVE Convert(_)
Convert(items) ==
  IF Len(items) = 0 THEN <<>>
  ELSE (IF TextSkipped(Head(items).text) THEN <<>>
        ELSE <<[comment_id |-> InstaCommentId(Head(items).id),
                text |-> Head(items).text, source |-> "instagram"]>>
               \o ConvertReplies(Head(items).replies))
       \o Convert(Tail(items))

\* The conversion raises: it reaches a text that is true and no str.
ConvertRaises(items) ==
  \E i \in 1..Len(items) :
    \/ TextRaises(items[i].text)
    \/ /\ ~TextSkipped(items[i].text)
       /\ \E j \in 1..Len(items[i].replies) : TextRaises(items[i].replies[j].text)

_load_instagram_data(file) ==
  IF ~Exists(file) THEN <<>>
  ELSE IF LoadRaises(file) THEN <<>>
  ELSE IF ConvertRaises(LoadedItems(file)) THEN <<>>
  ELSE Convert(LoadedItems(file))

\* preprocessing.py 875-877
TagYoutube(items) ==
  [i \in 1..Len(items) |->
     IF items[i].source = NoneStr THEN [items[i] EXCEPT !.source = "youtube"]
     ELSE items[i]]

\* preprocessing.py 868-882: raw_items + instagram_items
Merged(raw, insta) ==
  TagYoutube(IF Exists(raw) THEN LoadedItems(raw) ELSE <<>>)
  \o _load_instagram_data(insta)

\* The records with a true comment_id, none removed.
ItemsWithId(items) == SelectSeq(items, LAMBDA it : Truthy(it.comment_id))

\* preprocessing.py 884-891: of the records with a true comment_id, the first
\* of each comment_id
UniqueItems(items) ==
  Pick(items,
       SelectSeq(Indices(items),
                 LAMBDA i : /\ Truthy(items[i].comment_id)
                            /\ \A j \in 1..(i - 1) :
                                 items[j].comment_id # items[i].comment_id))

\* A Counter: the keys given a count.  c[key] of Python is Count(c, key).
Count(c, key) == IF key \in DOMAIN c THEN c[key] ELSE 0
SetCount(c, key, n) == [k \in DOMAIN c \cup {key} |-> IF k = key THEN n ELSE c[k]]
Inc(c, key) == SetCount(c, key, Count(c, key) + 1)
Add(c, key, n) == IF n = 0 THEN c ELSE SetCount(c, key, Count(c, key) + n)
EmptyCounter == [k \in {} |-> 0]

\* i.get("source") on a record of processed
GetSource(rec) == IF "source" \in DOMAIN rec THEN rec.source ELSE NoneStr

\* preprocessing.py 914-924
DroppedRecord(item, why) ==
  [comment_id |-> item.comment_id, text |-> item.text, source |-> item.source,
   drop_reason |-> why]

\* preprocessing.py 928-937
Enriched(item, res) ==
  [comment_id |-> item.comment_id, text |-> item.text,
   text_clean |-> res.text_clean, tokens |-> res.tokens,
   lang_hint |-> res.lang_hint]

\* preprocessing.py 941-948: the positions of the records that are the first
\* with their text_clean, and the number of the others
FirstTexts(recs) ==
  SelectSeq(Indices(recs),
            LAMBDA i : \A j \in 1..(i - 1) : recs[j].text_clean # recs[i].text_clean)

UniqueTexts(recs) == Pick(recs, FirstTexts(recs))

\* A count of duplicates that stays at zero.
NoDuplicateCount(recs) == 0

DuplicateTexts(recs) == Len(recs) - Len(FirstTexts(recs))

\* sum(1 for i in recs if i.get("source") == tag)
CountSource(recs, tag) == Cardinality({i \in 1..Len(recs) : GetSource(recs[i]) = tag})

Init ==
  /\ emoji \in BOOLEAN
  /\ raw_file \in Files(RawPool, MaxRaw)
  /\ insta_file \in Files(InstaPool, MaxInsta)
  /\ cfg = DefaultConfig
  /\ pc = "load"
  /\ all_items = <<>>
  /\ todo = <<>>
  /\ processed = <<>>
  /\ dropped = <<>>
  /\ counters = EmptyCounter
  /\ saved = None
  /\ returned = None
  /\ text = None
  /\ result = None
  /\ reason = NoneStr
  /\ NormaliserIdle
  /\ DialectIdle
  /\ ScraperIdle

\* preprocessing.py 866-882: the two files are read, or _load_json raises
Load ==
  /\ pc = "load"
  /\ IF Exists(raw_file) /\ LoadRaises(raw_file)
     THEN /\ returned' = [type |-> "raised"]
          /\ pc' = "raised"
          /\ UNCHANGED all_items
     ELSE /\ all_items' = Merged(raw_file, insta_file)
          /\ pc' = "dedup"
          /\ UNCHANGED returned
  /\ UNCHANGED <<seen_ids, all_comments, videos, the_cleaned, the_tokens, is_darija_text, emoji, cfg, text, result, reason, once, twice, raw_file,
                 insta_file, todo, processed, dropped, counters, saved>>

\* preprocessing.py 884-905
DedupIds ==
  /\ pc = "dedup"
  /\ all_items' = UniqueItems(all_items)
  /\ todo' = all_items'
  /\ pc' = "classify"
  /\ UNCHANGED <<seen_ids, all_comments, videos, the_cleaned, the_tokens, is_darija_text, emoji, cfg, text, result, reason, once, twice, raw_file,
                 insta_file, processed, dropped, counters, saved, returned>>

\* preprocessing.py 907-939: one iteration of the loop
ClassifyItem ==
  /\ pc = "classify"
  /\ Len(todo) > 0
  /\ LET item == Head(todo)
         out  == _preprocess_comment_internal(item.text, cfg, emoji)
     IN  IF out[1] = None
         THEN /\ counters' = Inc(Inc(counters, "dropped"), "dropped_" \o out[2])
              /\ dropped' = Append(dropped, DroppedRecord(item, out[2]))
              /\ UNCHANGED processed
         ELSE /\ processed' = Append(processed, Enriched(item, out[1]))
              /\ counters' = Inc(counters, "kept")
              /\ UNCHANGED dropped
  /\ todo' = Tail(todo)
  /\ UNCHANGED <<seen_ids, all_comments, videos, the_cleaned, the_tokens, is_darija_text, emoji, cfg, text, pc, result, reason, once, twice, raw_file,
                 insta_file, all_items, saved, returned>>

\* preprocessing.py 941-956
DedupText ==
  /\ pc = "classify"
  /\ Len(todo) = 0
  /\ processed' = UniqueTexts(processed)
  /\ counters' =
       SetCount(
         SetCount(
           SetCount(Add(counters, "duplicates_removed", DuplicateTexts(processed)),
                    "final_count", Len(processed')),
           "final_youtube", CountSource(processed', "youtube")),
         "final_instagram", CountSource(processed', "instagram"))
  /\ pc' = "save"
  /\ UNCHANGED <<seen_ids, all_comments, videos, the_cleaned, the_tokens, is_darija_text, emoji, cfg, text, result, reason, once, twice, raw_file,
                 insta_file, all_items, todo, dropped, saved, returned>>

\* preprocessing.py 958-965
Save ==
  /\ pc = "save"
  /\ saved' = [type |-> "files", processed |-> processed, dropped |-> dropped]
  /\ counters' = SetCount(counters, "total", Len(all_items))
  /\ returned' = [type |-> "dict", counters |-> counters']
  /\ pc' = "done"
  /\ UNCHANGED <<seen_ids, all_comments, videos, the_cleaned, the_tokens, is_darija_text, emoji, cfg, text, result, reason, once, twice, raw_file,
                 insta_file, all_items, todo, processed, dropped>>

Next == Load \/ DedupIds \/ ClassifyItem \/ DedupText \/ Save

Spec == Init /\ [][Next]_vars

-----------------------------------------------------------------------------
(* Properties of the aggregator (Spec) *)

\* No two records of the list share their comment_id.
DistinctIds(recs) ==
  \A i, j \in 1..Len(recs) : i < j => recs[i].comment_id # recs[j].comment_id

\* No two records of the list share their text_clean.
DistinctTexts(recs) ==
  \A i, j \in 1..Len(recs) : i < j => recs[i].text_clean # recs[j].text_clean

\* The records of the file at raw_path, when it can be loaded.
RawRecords == IF raw_file.state = "ok" THEN raw_file.items ELSE <<>>

\* The merged list holds the records of the primary file, in their order,
\* before the records made of the secondary file.
PrimaryFirst(items) ==
  /\ Len(items) >= Len(RawRecords)
  /\ \A i \in 1..Len(items) :
       IF i <= Len(RawRecords)
       THEN /\ items[i].comment_id = RawRecords[i].comment_id
            /\ items[i].text = RawRecords[i].text
       ELSE items[i].source = "instagram"

\* What a run does in one step to the lists it deduplicates.
C5_Step ==
  /\ pc = "dedup" =>
       /\ PrimaryFirst(all_items)
       /\ DistinctIds(all_items')
       /\ \A k \in 1..Len(all_items') :
            \E i \in 1..Len(all_items) :
              /\ all_items[i] = all_items'[k]
              /\ \A j \in 1..(i - 1) : all_items[j].comment_id # all_items[i].comment_id
       /\ \A i \in 1..Len(all_items) :
            Truthy(all_items[i].comment_id) =>
              \E k \in 1..Len(all_items') :
                all_items'[k].comment_id = all_items[i].comment_id
  /\ pc = "classify" /\ pc' = "save" =>
       /\ DistinctTexts(processed')
       /\ \A k \in 1..Len(processed') :
            \E i \in 1..Len(processed) :
              /\ processed[i] = processed'[k]
              /\ \A j \in 1..(i - 1) : processed[j].text_clean # processed[i].text_clean
       /\ \A i \in 1..Len(processed) :
            \E k \in 1..Len(processed') :
              processed'[k].text_clean = processed[i].text_clean
  /\ pc' = "done" =>
       /\ DistinctTexts(saved'.processed)
       /\ DistinctIds(saved'.processed \o saved'.dropped)

\* C5: after a run, no two accepted records share their text_clean and no
\* two retained records, accepted or rejected, share their comment_id; in
\* both deduplications the record retained is the first occurrence in the
\* merged order, the records of the primary source first.
C5_DedupKeepsFirst == [][C5_Step]_vars

\* C5 witness: a run has ended in which a record was removed for its
\* comment_id and an accepted record for its text_clean.
C5_BothDedupsActed ==
  /\ pc = "done"
  /\ Len(all_items) < Len(ItemsWithId(Merged(raw_file, insta_file)))
  /\ Len(saved.processed) < Count(counters, "kept")

\* The source tag of the input record with the given comment_id.
SourceOfId(cid) ==
  all_items[CHOOSE i \in 1..Len(all_items) : all_items[i].comment_id = cid].source

\* The number of records of the list that came from the source tagged tag.
FromSource(recs, tag) ==
  Cardinality({i \in 1..Len(recs) : SourceOfId(recs[i].comment_id) = tag})

\* C6: after a run, final_youtube is the number of the final accepted
\* records that came from the youtube source and final_instagram the number
\* of those that came from instagram, so that the two add up to final_count
\* when every input record comes from one of the two.
C6_PerSourceCounts ==
  pc = "done" =>
    /\ Count(counters, "final_youtube") = FromSource(saved.processed, "youtube")
    /\ Count(counters, "final_instagram") = FromSource(saved.processed, "instagram")
    /\ Count(counters, "final_youtube") + Count(counters, "final_instagram")
         = Count(counters, "final_count")

\* C6: a run has ended that accepted a record of the youtube source and
\* reports final_youtube = 0.
C6_YoutubeNotCounted ==
  /\ pc = "done"
  /\ FromSource(saved.processed, "youtube") > 0
  /\ Count(counters, "final_youtube") = 0

\* The number of the accepted records whose text_clean is that of an
\* earlier accepted record.
LaterCopies(recs) ==
  Cardinality({i \in 1..Len(recs) :
                 \E j \in 1..(i - 1) : recs[j].text_clean = recs[i].text_clean})

\* What a run does in one step to the counters of C7.
C7_Step ==
  /\ pc = "classify" /\ pc' = "save" =>
       /\ Count(counters, "duplicates_removed") = 0
       /\ Count(counters', "duplicates_removed") = LaterCopies(processed)
       /\ Count(counters', "kept") = Len(processed)
  /\ pc' = "done" =>
       /\ Count(counters', "final_count") = Len(saved'.processed)
       /\ Count(counters', "kept")
            = Count(counters', "final_count") + Count(counters', "duplicates_removed")

\* C7: duplicates_removed is incremented once for each accepted record
\* whose text_clean is that of an earlier accepted record, so that at the
\* end of a run kept = final_count + duplicates_removed; two accepted
\* records of distinct comment_id and the same text_clean leave one record
\* and duplicates_removed = 1.
C7_DuplicatesCounted == [][C7_Step]_vars

\* C7 witness: a run has ended that accepted two records of distinct
\* comment_id and the same text_clean, kept one and counted one duplicate.
C7_OneDuplicateRemoved ==
  /\ pc = "done"
  /\ Count(counters, "kept") = 2
  /\ Len(saved.processed) = 1
  /\ Count(counters, "duplicates_removed") = 1
  /\ Len(all_items) = 2
  /\ all_items[1].comment_id # all_items[2].comment_id

\* The number of the records of the list whose comment_id is that of an
\* earlier record.
IdDuplicates(items) ==
  Cardinality({i \in 1..Len(items) :
                 /\ Truthy(items[i].comment_id)
                 /\ \E j \in 1..(i - 1) : items[j].comment_id = items[i].comment_id})

\* The records of the list are as many as those discarded for their
\* comment_id, those rejected, those accepted and those counted as
\* duplicates together.
Accounted(items, files, count) ==
  Len(items) = IdDuplicates(items) + Len(files.dropped) + Len(files.processed)
                 + Count(count, "duplicates_removed")

\* C18: at the end of a run every record of the merged list is accounted
\* for: discarded as the duplicate of an earlier record by its comment_id,
\* written to the rejected collection with its drop reason, written to the
\* accepted collection, or counted in duplicates_removed; no record, one
\* without comment_id or with an empty one included, goes without a
\* recorded outcome, and total = kept + dropped.
C18_EveryRecordAccounted ==
  pc = "done" =>
    /\ Accounted(Merged(raw_file, insta_file), saved, counters)
    /\ Count(counters, "total")
         = Count(counters, "kept") + Count(counters, "dropped")

\* C18: a run on the one record without comment_id has ended with nothing
\* in the accepted and the rejected collection and with total = 0.
C18_RecordWithoutIdLost ==
  /\ pc = "done"
  /\ Len(Merged(raw_file, insta_file)) = 1
  /\ Merged(raw_file, insta_file)[1].comment_id = None
  /\ saved.processed = <<>>
  /\ saved.dropped = <<>>
  /\ Count(counters, "total") = 0

\* The run has persisted nothing and returned no counters.
NothingProduced == saved = None /\ (returned = None \/ returned.type = "raised")

\* C8 as stated: a structural error is fatal: when the primary file is
\* missing or unreadable, or one of the two files holds malformed JSON, the
\* run persists nothing and returns no counters.
C8_StructuralErrorsFatal ==
  (\/ raw_file.state \in {"missing", "unreadable", "malformed"}
   \/ insta_file.state = "malformed") => NothingProduced

\* C8 amended: the run raises, persisting nothing and returning no
\* counters, exactly when the primary file exists and is unreadable or
\* holds malformed JSON.  A missing primary file, and a secondary file that
\* is missing, unreadable or malformed, each degrade to an empty
\* contribution: the run goes on with the records of the other file, and
\* persists its collections and returns its counters.
C8_OnlyPrimaryLoadFatal ==
  /\ raw_file.state \in {"unreadable", "malformed"} =>
       pc \in {"load", "raised"} /\ NothingProduced
  /\ pc = "raised" =>
       raw_file.state \in {"unreadable", "malformed"} /\ returned.type = "raised"
  /\ pc = "done" => saved # None /\ returned.type = "dict"
  /\ pc \notin {"load", "raised"} /\ raw_file.state = "missing" =>
       \A i \in 1..Len(all_items) : all_items[i].source = "instagram"
  /\ /\ pc \notin {"load", "raised"}
     /\ insta_file.state \in {"missing", "unreadable", "malformed"}
     => /\ Len(all_items) <= Len(RawRecords)
        /\ \A i \in 1..Len(all_items) :
             \E j \in 1..Len(RawRecords) :
               /\ RawRecords[j].comment_id = all_items[i].comment_id
               /\ RawRecords[j].text = all_items[i].text

\* C8 witness: a run whose primary file is missing and whose secondary file
\* holds malformed JSON has ended, persisted its collections and returned
\* its counters.
C8_DegradedRunCompleted ==
  /\ pc = "done"
  /\ raw_file.state = "missing"
  /\ insta_file.state = "malformed"
  /\ saved # None
  /\ returned.type = "dict"
  /\ Count(returned.counters, "total") = 0

-----------------------------------------------------------------------------
(* YouTubeScraper: one run of scrape_all_channels (scraper.py 160-207) *)

\* The records a raw file left by an earlier run may hold, at most.
MaxExisting == 1

\* The comments the API returns for one video, at most.  get_comments stops
\* asking for pages at max_comments = 500 comments, and scrape_channel stops
\* visiting videos at MAX_COMMENTS // 7 comments: neither is reached here.
MaxPage == 2

\* The calls of get_comments in one run, at most.
MaxVideos == 2

\* The ids of the comment threads the API returns.
ApiIds == {PyStr("c1"), PyStr("c4")}

\* The items of the pages the API returns for one video, in order.  A call
\* that raises after some pages leaves the items of the earlier pages.
Responses == UNION {[1..n -> ApiIds] : n \in 0..MaxPage}

\* The comment ids of a list of records, as a set.
IdsOf(recs) == {recs[i].comment_id : i \in 1..Len(recs)}

\* _load_existing(path), as the list of the values of the dict it returns:
\* {} without a file or when reading raises, else one entry per truthy
\* comment_id, at the position of its first record, with its last record.
RECURSIVE ExistingValues(_, _)
ExistingValues(items, i) ==
  IF i > Len(items) THEN <<>>
  ELSE IF /\ Truthy(items[i].comment_id)
          /\ \A j \in 1..(i - 1) : items[j].comment_id # items[i].comment_id
       THEN <<items[CHOOSE k \in i..Len(items) :
                 /\ items[k].comment_id = items[i].comment_id
                 /\ \A l \in (k + 1)..Len(items) :
                      items[l].comment_id # items[i].comment_id]>>
            \o ExistingValues(items, i + 1)
       ELSE ExistingValues(items, i + 1)

_load_existing(file) == ExistingValues(LoadedItems(file), 1)

\* get_comments, line 68: "seen_ids or set()" is the caller's set object
\* when that set has an element, and a new empty set when it has none.
SharesCallerSet(caller_ids) == caller_ids # {}

\* get_comments, the loop over the items: the comments appended, given the
\* set the name seen_ids is bound to inside the call.
RECURSIVE Collect(_, _, _)
Collect(items, video_id, local_ids) ==
  IF items = <<>> THEN <<>>
  ELSE IF Head(items) \in local_ids
       THEN Collect(Tail(items), video_id, local_ids)
       ELSE <<[comment_id |-> Head(items), video_id |-> video_id]>>
            \o Collect(Tail(items), video_id, local_ids \cup {Head(items)})

\* get_comments(video_id, seen_ids = caller_ids): the list returned.
get_comments(items, video_id, caller_ids) == Collect(items, video_id, caller_ids)

\* The caller's set object after get_comments returned: the ids added at
\* line 94 reach it only when line 68 kept it.
CallerSetAfter(items, video_id, caller_ids) ==
  IF SharesCallerSet(caller_ids)
  THEN caller_ids \cup IdsOf(get_comments(items, video_id, caller_ids))
  ELSE caller_ids

\* scrape_all_channels, line 195: one record per comment id, at the position
\* of the first and with the value of the last.
unique(recs) == ExistingValues(recs, 1)

InitScraper ==
  /\ emoji = TRUE
  /\ cfg = DefaultConfig
  /\ raw_file \in Files(RawPool, MaxExisting)
  /\ seen_ids = IdsOf(_load_existing(raw_file))
  /\ all_comments = _load_existing(raw_file)
  /\ videos = 0
  /\ pc = "scraping"
  /\ insta_file = [state |-> "missing"]
  /\ all_items = <<>>
  /\ todo = <<>>
  /\ processed = <<>>
  /\ dropped = <<>>
  /\ counters = <<>>
  /\ saved = None
  /\ returned = None
  /\ text = None
  /\ result = None
  /\ reason = NoneStr
  /\ NormaliserIdle
  /\ DialectIdle

\* One video of one channel: scrape_channel calls get_comments with the set
\* of scrape_all_channels, and the comments returned end in all_comments.
GetComments ==
  /\ pc = "scraping"
  /\ videos < MaxVideos
  /\ \E items \in Responses :
       /\ all_comments' = all_comments \o get_comments(items, videos + 1, seen_ids)
       /\ seen_ids' = CallerSetAfter(items, videos + 1, seen_ids)
  /\ videos' = videos + 1
  /\ UNCHANGED <<the_cleaned, the_tokens, is_darija_text, emoji, cfg, text, pc,
                 result, reason, once, twice, raw_file, insta_file, all_items,
                 todo, processed, dropped, counters, saved, returned>>

\* The end of the run: the duplicates are removed and the file is written.
SaveComments ==
  /\ pc = "scraping"
  /\ all_comments' = unique(all_comments)
  /\ raw_file' = [state |-> "ok", items |-> all_comments']
  /\ pc' = "saved"
  /\ UNCHANGED <<seen_ids, videos, the_cleaned, the_tokens, is_darija_text,
                 emoji, cfg, text, result, reason, once, twice, insta_file,
                 all_items, todo, processed, dropped, counters, saved, returned>>

NextScraper == GetComments \/ SaveComments

SpecScraper == InitScraper /\ [][NextScraper]_vars

\* C21: while scrape_all_channels visits the videos, the set it hands to
\* get_comments holds the id of every comment collected so far, from the
\* existing raw file and from the earlier calls, and no comment id is
\* collected twice, whether or not an existing raw file was found.
C21_NeverCollectedTwice ==
  pc = "scraping" =>
    /\ seen_ids = IdsOf(all_comments)
    /\ \A i, j \in 1..Len(all_comments) :
         all_comments[i].comment_id = all_comments[j].comment_id => i = j

\* C21 witness: a run that found no raw file has called get_comments for two
\* videos, holds the same comment id once for each, and its set is empty.
C21_CollectedTwice ==
  /\ pc = "scraping"
  /\ raw_file.state = "missing"
  /\ videos = 2
  /\ seen_ids = {}
  /\ \E i, j \in 1..Len(all_comments) :
       /\ i < j
       /\ all_comments[i].comment_id = all_comments[j].comment_id
       /\ all_comments[i].video_id = 1
       /\ all_comments[j].video_id = 2
====
